---- MODULE Spec2Model ----
(***************************************************************************)
(* Progression and reward reconciliation engine of the clicker game.       *)
(*                                                                         *)
(* Client side: the click queue of useClickerGame (handleClickUpdate,      *)
(* processClickQueue, fetchScores).  Ledger side: the clicks row of the    *)
(* user, the milestone trigger check_power_milestones with                 *)
(* grant_power_to_user, and the server action checkClickAchievements.      *)
(* The server action updateClickAction is not part of the sources; it is   *)
(* modelled from the Ledger interface setTotal of the specification.       *)
(***************************************************************************)
EXTENDS Integers, FiniteSets, Sequences, Bags, TLC

(***************************************************************************)
(* Bounds of the model.                                                    *)
(***************************************************************************)
MaxClicks == 2        \* sum of the click values enqueued in one behaviour
MaxFetch == 1         \* fetchScores reads in flight at the same time
MaxTimers == 2        \* outstanding backoff timers that are told apart
MaxRequests == 3      \* update requests counted for one batch of clicks

\* Totals of the user's clicks row when the hook is mounted.
StartTotals == {0, 99}
\* Click values max(1, floor(multiplier)): no multiplier, Double Trouble.
ClickValues == {1, 2}
\* Totals written by LedgerSetTotal in the Ledger-only specification.
SampleTotals == {90, 99, 100, 109, 110, 250, 499, 500, 600}

\* Totals written in the specification of the Reward Grantor.
GrantTotals == {50, 100}
\* The useAchievements instances of one user that call
\* checkClickAchievements.
Evaluators == {1, 2}
\* Concurrent requests to the sync-powers endpoint.
Syncers == {1, 2}
\* The concurrent calls of one power function on one row.
Callers == {1, 2}

\* clickCount arguments in the specification of the notifications.
NotifyTotals == {25, 50}
\* getPendingAchievementNotifications reads in flight at the same time.
MaxSnaps == 1
\* runs of synchronizeDbPowersToMemory in one behaviour
MaxPasses == 2
\* entries of activePowers when getClickMultiplier is called
MaxPowers == 2
\* delays scheduled in a row without a drain, and the last look at the clock
MaxDelays == 2
MaxClock == 25000

\* NULL in a column of integers or timestamps.
Null == -1
\* Seconds that pass between two looks at the clock, and the last second.
TickSeconds == 60
MaxTime == 120
\* Rows of special_powers: max_level, duration (seconds or NULL).
MaxLevels == {1, 2, 3}
Durations == {Null, 60}
\* uses_left and expires_at of the user's row when it is first looked at.
StartUses == {Null, 0, 1}
StartExpiries == {Null, 60}

Min(a, b) == IF a < b THEN a ELSE b

VARIABLES
    user,                   \* useState user: TRUE once setupAuth found a user
    clickCount,             \* useState clickCount, the displayed total
    pendingClicks,          \* clickQueueRef.current.pendingClicks
    isProcessing,           \* clickQueueRef.current.isProcessing
    serverConfirmedClicks,  \* serverConfirmedClicksRef.current
    pc,                     \* position of the processClickQueue invocation
    clicksToProcess,        \* local of processClickQueue
    newTotal,               \* local of processClickQueue
    result,                 \* answer of updateClickAction on its way back
    timers,                 \* outstanding setTimeout(processClickQueue, ..)
    fetches,                \* bag of clicks.qty snapshots read by fetchScores
    achCheck,               \* debounced checkForClickAchievements argument
    qty,                    \* Ledger: clicks.qty of the user
    user_powers,            \* Ledger: power id -> number of user_powers rows
    user_achievements,      \* Ledger: threshold -> number of grant rows
    prevQty,                \* history: clicks.qty before the last update
    updatesInFlight,        \* history: update requests not yet answered
    cycle,                  \* history: the current or last flush cycle
    requestsForBatch,       \* history: requests since last enqueue/success
    enqueued,               \* history: sum of the enqueued click values
    rewardPower,            \* achievements: threshold -> reward_value or 0
    evalPc,                 \* position of each checkClickAchievements call
    evalCount,              \* clickCount argument of each call
    achievementsToUnlock,   \* local of checkClickAchievements
    insertedAchievements,   \* local and return value of the call
    evalOutcome,            \* history: how each call ended
    lostPowers,             \* history: <<power, total>> of failed inserts
    sawLost,                \* history: lostPowers when each call started
    syncPc,                 \* position of each sync-powers request
    pendingAchievements,    \* useState pendingAchievements (ids, unordered)
    notified,               \* Ledger: achievements whose row has notified
    rtDue,                  \* a user_achievements change event is undelivered
    rtSnap,                 \* getPendingAchievementNotifications in flight
    newAchievements,        \* checkClickAchievements result in flight
    marking,                \* markAchievementNotified calls in flight
    special_power,          \* Ledger: the special_powers row of one power
    user_power,             \* Ledger: the user's user_powers row of it
    now,                    \* NOW(), in seconds
    lastCall,               \* history: the last call and what it returned
    callOp,                 \* the function the concurrent calls run
    callPc,                 \* statement each concurrent call is at
    readRow,                \* what each call has read of the row so far
    callRet,                \* what each call returned
    startRow,               \* history: the row before the calls
    powerRows,              \* Ledger: power id -> the user's user_powers row
    activePowers,           \* useState activePowers: power id -> cached row
    passLog,                \* history: the reconciliation passes so far
    powerList,              \* activePowers as a list, with the power joined
    multiplier,             \* what getClickMultiplier returned, 0 before
    clock,                  \* Date.now(), in milliseconds
    lastProcessedTimestamp, \* clickQueueRef.current.lastProcessedTimestamp
    nextBatchDelays,        \* history: delays scheduled since the last drain
    achievementUpdateInProgress, \* achievementUpdateInProgressRef.current
    achievementCheckDebounce,    \* the callback achievementCheckDebounceRef holds
    achievementCheck,       \* the debounced callback that is running
    userRank,               \* userRankRef.current
    checksApplied,          \* fetchScores results applied so far
    clickRequested,         \* history: last total a click check was asked for
    clickEvaluated,         \* history: highest total checkClickAchievements got
    startTotal              \* history: clicks.qty when the hook mounted

vars == << user, clickCount, pendingClicks, isProcessing,
           serverConfirmedClicks, pc, clicksToProcess, newTotal, result,
           timers, fetches, achCheck, qty, user_powers, user_achievements,
           prevQty, updatesInFlight, cycle, requestsForBatch, enqueued,
           rewardPower, evalPc, evalCount, achievementsToUnlock,
           insertedAchievements, evalOutcome, lostPowers, sawLost, syncPc,
           pendingAchievements, notified, rtDue, rtSnap, newAchievements,
           marking, special_power, user_power, now, lastCall,
           callOp, callPc, readRow, callRet, startRow,
           powerRows, activePowers, passLog, powerList, multiplier,
           clock, lastProcessedTimestamp, nextBatchDelays,
           achievementUpdateInProgress, achievementCheckDebounce,
           achievementCheck, userRank, checksApplied, clickRequested,
           clickEvaluated, startTotal >>

ledgerVars == << qty, user_powers, user_achievements, prevQty >>

clientVars == << user, clickCount, pendingClicks, isProcessing,
                 serverConfirmedClicks, pc, clicksToProcess, newTotal, result,
                 timers, fetches, achCheck, updatesInFlight, cycle,
                 requestsForBatch, enqueued >>

grantVars == << rewardPower, evalPc, evalCount, achievementsToUnlock,
                insertedAchievements, evalOutcome, lostPowers, sawLost,
                syncPc >>

notifyVars == << pendingAchievements, notified, rtDue, rtSnap,
                 newAchievements, marking >>

powerVars == << special_power, user_power, now, lastCall >>

raceVars == << callOp, callPc, readRow, callRet, startRow >>

\* The variables of the parts that are looked at on their own.
reconcileVars == << powerRows, activePowers, passLog >>

multiplierVars == << powerList, multiplier >>

backoffVars == << clock, lastProcessedTimestamp, nextBatchDelays >>

checkVars == << achievementUpdateInProgress, achievementCheckDebounce,
                achievementCheck, userRank, checksApplied, clickRequested,
                clickEvaluated >>

laterVars == << raceVars, reconcileVars, multiplierVars, backoffVars,
                checkVars, startTotal >>

(***************************************************************************)
(* Reward catalog.                                                         *)
(***************************************************************************)
\* check_power_milestones: power id -> lower edge of its click window.
PowerMilestone ==
    [ id \in 1..15 |->
        CASE id = 1 -> 100     [] id = 2 -> 500     [] id = 3 -> 1000
          [] id = 4 -> 5000    [] id = 5 -> 10000   [] id = 6 -> 1000
          [] id = 7 -> 2500    [] id = 8 -> 5000    [] id = 9 -> 10000
          [] id = 10 -> 25000  [] id = 11 -> 2000   [] id = 12 -> 5000
          [] id = 13 -> 10000  [] id = 14 -> 25000  [] id = 15 -> 50000 ]

PowerIds == DOMAIN PowerMilestone

\* Width of the window "click_count >= t AND click_count < t + 10".
MilestoneWindow == 10

\* Thresholds of the achievements of type clicks.
ClickAchievements ==
    { 25, 50, 100, 250, 500, 1000, 2500, 5000, 10000, 25000, 50000,
      100000, 250000, 500000, 1000000 }

NoCheck == -1

NoResult == [kind |-> "none", newCount |-> 0]

\* No row for the key in the table.
NoRow == [held |-> FALSE]

NoCall == [op |-> "none", ret |-> FALSE, upgrades |-> 0]

NoCycle == [requests |-> 0, refreshes |-> 0, firstTotal |-> 0,
            lastTotal |-> 0, outcome |-> "none", toast |-> "none",
            duringFlight |-> 0, attempt |-> 0]

(***************************************************************************)
(* Ledger: milestone trigger and achievement evaluation.                   *)
(***************************************************************************)
\* Variant of GrantPowerToUser without the EXISTS check.
GrantPowerAlways(powers, id) ==
    [powers EXCEPT ![id] = @ + 1]

\* grant_power_to_user: insert a row unless the user already has the power.
GrantPowerToUser(powers, id) ==
    IF powers[id] = 0
        THEN [powers EXCEPT ![id] = @ + 1]
        ELSE powers

\* check_power_milestones: one IF per power, on NEW.qty alone.
CheckPowerMilestones(powers, click_count) ==
    [ id \in PowerIds |->
        IF /\ click_count >= PowerMilestone[id]
           /\ click_count < PowerMilestone[id] + MilestoneWindow
            THEN GrantPowerToUser(powers, id)[id]
            ELSE powers[id] ]

\* Variant of AchievementsToUnlock with an exclusive upper bound.
AchievementsBelow(grants, count) ==
    { t \in ClickAchievements : t < count /\ grants[t] = 0 }

\* checkClickAchievements: achievements of type clicks with
\* threshold <= clickCount that the user does not hold yet get one row each.
AchievementsToUnlock(grants, count) ==
    { t \in ClickAchievements : t <= count /\ grants[t] = 0 }

CheckClickAchievements(grants, count) ==
    [ t \in ClickAchievements |->
        IF t \in AchievementsToUnlock(grants, count)
            THEN grants[t] + 1
            ELSE grants[t] ]

\* setTotal of the Ledger interface: a write that would decrease the total
\* is rejected.
SetTotalAccepts(current, total) == total >= current

\* reward_value of an achievement whose reward_type is not power.
NoPower == 0

\* The auto_click power the sync-powers endpoint creates or activates.
AutoClickerPower == 6

\* Rows of the achievements table: the reward of the achievements with
\* thresholds 50 and 100 is none, Double Trouble or Triple Threat.
RewardCatalogs ==
    { [ t \in ClickAchievements |->
          CASE t = 50 -> c[1] [] t = 100 -> c[2] [] OTHER -> NoPower ] :
        c \in { <<NoPower, NoPower>>, <<NoPower, 1>>, <<1, 1>>, <<2, 1>> } }

\* grantSpecialPowersFromAchievements: the reward_value of the achievements
\* whose reward_type is power.
RewardedPowers(catalog, achievements) ==
    { catalog[t] : t \in achievements } \ {NoPower}

\* Variant of UniqueViolation for tables without a uniqueness constraint.
NoUniqueViolation(table, keys) == FALSE

\* The Ledger holds at most one grant per (user, definition): an insert of
\* rows of which one exists already fails as a whole.
UniqueViolation(table, keys) == \E k \in keys : table[k] >= 1

\* One INSERT statement with a row for each key.
InsertRows(table, keys) ==
    [ k \in DOMAIN table |-> IF k \in keys THEN table[k] + 1 ELSE table[k] ]

(***************************************************************************)
(* Click queue of useClickerGame.                                          *)
(***************************************************************************)
\* Variant of CanProcess without the isProcessing lock.
CanProcessNoLock(processing, pending, u) ==
    pending # 0 /\ u

\* Guard of processClickQueue.
CanProcess(processing, pending, u) ==
    ~processing /\ pending # 0 /\ u

\* clicksToProcess and newTotal as captured when the flush starts.
FlushTotal(confirmed, pending) == confirmed + pending

\* result.newCount || newTotal
ConfirmedCount(newCount, total) == IF newCount # 0 THEN newCount ELSE total

\* Variant of PendingAfterFlush in which the first attempt and the retry
\* both subtract the captured amount.
PendingSubtractedTwice(pending, processed) == pending - processed - processed

\* Variant of PendingAfterFlush that empties the queue.
PendingCleared(pending, processed) == 0

\* queue.pendingClicks -= clicksToProcess
PendingAfterFlush(pending, processed) == pending - processed

\* Variant of AfterFailure that refreshes after every authentication error.
RetryOnEveryAuthError(at, kind) ==
    IF kind = "auth" THEN "refresh" ELSE "idle"

\* Where processClickQueue goes after an unsuccessful answer: only the first
\* answer, and only an authentication error, leads to refreshSession.
AfterFailure(at, kind) ==
    IF at = "resp1" /\ kind = "auth" THEN "refresh" ELSE "idle"

\* The toast shown for an unsuccessful answer that ends the cycle.
FailureToast(at, kind) ==
    IF kind = "throw" THEN "none"
    ELSE IF at = "resp1" THEN "Failed to update score"
    ELSE "Update failed after refresh"

\* Variant of ScheduleNext that never schedules a next batch.
NoReschedule(pending, t) == t

\* finally: schedule the next batch while clicks are pending.
ScheduleNext(pending, t) ==
    IF pending > 0 THEN Min(t + 1, MaxTimers) ELSE t

\* setClickCount(serverConfirmedClicksRef.current + pendingClicks)
DisplayedCount(confirmed, pending) == confirmed + pending

CountRequest(n) == Min(n + 1, MaxRequests)

\* processClickQueue up to its first await: lock, capture, send.
StartFlush(pending, batch) ==
    /\ isProcessing' = TRUE
    /\ clicksToProcess' = pending
    /\ newTotal' = FlushTotal(serverConfirmedClicks, pending)
    /\ pc' = "await1"
    /\ result' = NoResult
    /\ updatesInFlight' = updatesInFlight + 1
    /\ requestsForBatch' = CountRequest(batch)
    /\ cycle' = [NoCycle EXCEPT
                    !.requests = 1,
                    !.firstTotal = FlushTotal(serverConfirmedClicks, pending),
                    !.lastTotal = FlushTotal(serverConfirmedClicks, pending),
                    !.outcome = "running",
                    !.attempt = CountRequest(batch)]

\* finally of processClickQueue.
Finally(pending) ==
    /\ isProcessing' = FALSE
    /\ pc' = "idle"
    /\ clicksToProcess' = 0
    /\ newTotal' = 0
    /\ result' = NoResult
    /\ timers' = ScheduleNext(pending, timers)

\* setupAuth: the user is known.
SetupAuth ==
    /\ ~user
    /\ user' = TRUE
    /\ UNCHANGED << clickCount, pendingClicks, isProcessing,
                    serverConfirmedClicks, pc, clicksToProcess, newTotal,
                    result, timers, fetches, achCheck, updatesInFlight,
                    cycle, requestsForBatch, enqueued >>
    /\ UNCHANGED ledgerVars
    /\ UNCHANGED << grantVars, notifyVars, powerVars, laterVars >>

\* handleClickUpdate, a click or an auto-click, when no flush is running:
\* the click is queued and processClickQueue starts a flush.  The callback
\* is taken to close over the clickCount of the latest render.
HandleClickUpdateFlush ==
    \E v \in ClickValues :
        /\ user
        /\ enqueued + v <= MaxClicks
        /\ ~isProcessing
        /\ CanProcess(isProcessing, pendingClicks + v, user)
        /\ clickCount' = clickCount + v
        /\ pendingClicks' = pendingClicks + v
        /\ enqueued' = enqueued + v
        /\ StartFlush(pendingClicks + v, 0)
        /\ UNCHANGED << user, serverConfirmedClicks, timers, fetches,
                        achCheck >>
        /\ UNCHANGED ledgerVars
        /\ UNCHANGED << grantVars, notifyVars, powerVars, laterVars >>

\* handleClickUpdate while a flush is running: the click is only queued.
HandleClickUpdateQueued ==
    \E v \in ClickValues :
        /\ user
        /\ enqueued + v <= MaxClicks
        /\ isProcessing
        /\ clickCount' = clickCount + v
        /\ pendingClicks' = pendingClicks + v
        /\ enqueued' = enqueued + v
        /\ cycle' = [cycle EXCEPT !.duringFlight = @ + v]
        /\ requestsForBatch' = 0
        /\ UNCHANGED << user, isProcessing, serverConfirmedClicks, pc,
                        clicksToProcess, newTotal, result, timers, fetches,
                        achCheck, updatesInFlight >>
        /\ UNCHANGED ledgerVars
        /\ UNCHANGED << grantVars, notifyVars, powerVars, laterVars >>

\* A backoff timer fires and processClickQueue starts a flush.
TimerFlush ==
    /\ timers > 0
    /\ CanProcess(isProcessing, pendingClicks, user)
    /\ timers' = timers - 1
    /\ StartFlush(pendingClicks, requestsForBatch)
    /\ UNCHANGED << user, clickCount, pendingClicks, serverConfirmedClicks,
                    fetches, achCheck, enqueued >>
    /\ UNCHANGED ledgerVars
    /\ UNCHANGED << grantVars, notifyVars, powerVars, laterVars >>

\* A backoff timer fires and processClickQueue returns at its guard.
TimerSkip ==
    /\ timers > 0
    /\ ~CanProcess(isProcessing, pendingClicks, user)
    /\ timers' = timers - 1
    /\ UNCHANGED << user, clickCount, pendingClicks, isProcessing,
                    serverConfirmedClicks, pc, clicksToProcess, newTotal,
                    result, fetches, achCheck, updatesInFlight, cycle,
                    requestsForBatch, enqueued >>
    /\ UNCHANGED ledgerVars
    /\ UNCHANGED << grantVars, notifyVars, powerVars, laterVars >>

Answered == IF pc = "await1" THEN "resp1" ELSE "resp2"

\* updateClickAction on the server: the total is written, the trigger runs.
UpdateClickActionOk ==
    /\ pc \in {"await1", "await2"}
    /\ SetTotalAccepts(qty, newTotal)
    /\ prevQty' = qty
    /\ qty' = newTotal
    /\ user_powers' = CheckPowerMilestones(user_powers, newTotal)
    /\ result' = [kind |-> "ok", newCount |-> newTotal]
    /\ pc' = Answered
    /\ UNCHANGED << user, clickCount, pendingClicks, isProcessing,
                    serverConfirmedClicks, clicksToProcess, newTotal, timers,
                    fetches, achCheck, updatesInFlight, cycle,
                    requestsForBatch, enqueued, user_achievements >>
    /\ UNCHANGED << grantVars, notifyVars, powerVars, laterVars >>

\* updateClickAction rejects a total below the stored one.
UpdateClickActionRejected ==
    /\ pc \in {"await1", "await2"}
    /\ ~SetTotalAccepts(qty, newTotal)
    /\ result' = [kind |-> "error", newCount |-> 0]
    /\ pc' = Answered
    /\ UNCHANGED << user, clickCount, pendingClicks, isProcessing,
                    serverConfirmedClicks, clicksToProcess, newTotal, timers,
                    fetches, achCheck, updatesInFlight, cycle,
                    requestsForBatch, enqueued >>
    /\ UNCHANGED ledgerVars
    /\ UNCHANGED << grantVars, notifyVars, powerVars, laterVars >>

\* updateClickAction fails without writing: an authentication error, another
\* error result, or a rejected promise.
UpdateClickActionFails ==
    \E kind \in {"auth", "error", "throw"} :
        /\ pc \in {"await1", "await2"}
        /\ result' = [kind |-> kind, newCount |-> 0]
        /\ pc' = Answered
        /\ UNCHANGED << user, clickCount, pendingClicks, isProcessing,
                        serverConfirmedClicks, clicksToProcess, newTotal,
                        timers, fetches, achCheck, updatesInFlight, cycle,
                        requestsForBatch, enqueued >>
        /\ UNCHANGED ledgerVars
        /\ UNCHANGED << grantVars, notifyVars, powerVars, laterVars >>

\* processClickQueue receives a successful answer (first try or retry).
FlushSucceeded ==
    /\ pc \in {"resp1", "resp2"}
    /\ result.kind = "ok"
    /\ serverConfirmedClicks' = ConfirmedCount(result.newCount, newTotal)
    /\ pendingClicks' = PendingAfterFlush(pendingClicks, clicksToProcess)
    /\ Finally(PendingAfterFlush(pendingClicks, clicksToProcess))
    /\ updatesInFlight' = updatesInFlight - 1
    /\ requestsForBatch' = 0
    /\ cycle' = [cycle EXCEPT !.outcome = "success"]
    /\ UNCHANGED << user, clickCount, fetches, achCheck, enqueued >>
    /\ UNCHANGED ledgerVars
    /\ UNCHANGED << grantVars, notifyVars, powerVars, laterVars >>

\* processClickQueue receives the authentication error of its first try and
\* calls refreshSession.
FlushNeedsRefresh ==
    /\ pc \in {"resp1", "resp2"}
    /\ result.kind # "ok"
    /\ AfterFailure(pc, result.kind) = "refresh"
    /\ pc' = "refresh"
    /\ result' = NoResult
    /\ updatesInFlight' = updatesInFlight - 1
    /\ cycle' = [cycle EXCEPT !.refreshes = @ + 1]
    /\ UNCHANGED << user, clickCount, pendingClicks, isProcessing,
                    serverConfirmedClicks, clicksToProcess, newTotal, timers,
                    fetches, achCheck, requestsForBatch, enqueued >>
    /\ UNCHANGED ledgerVars
    /\ UNCHANGED << grantVars, notifyVars, powerVars, laterVars >>

\* processClickQueue receives an unsuccessful answer that ends the cycle.
FlushFailed ==
    /\ pc \in {"resp1", "resp2"}
    /\ result.kind # "ok"
    /\ AfterFailure(pc, result.kind) = "idle"
    /\ Finally(pendingClicks)
    /\ updatesInFlight' = updatesInFlight - 1
    /\ cycle' = [cycle EXCEPT
                    !.outcome = IF result.kind = "throw" THEN "threw"
                                ELSE "failed",
                    !.toast = FailureToast(pc, result.kind)]
    /\ UNCHANGED << user, clickCount, pendingClicks, serverConfirmedClicks,
                    fetches, achCheck, requestsForBatch, enqueued >>
    /\ UNCHANGED ledgerVars
    /\ UNCHANGED << grantVars, notifyVars, powerVars, laterVars >>

\* refreshSession succeeded: the same total is sent once more.
RefreshedRetry ==
    /\ pc = "refresh"
    /\ pc' = "await2"
    /\ updatesInFlight' = updatesInFlight + 1
    /\ requestsForBatch' = CountRequest(requestsForBatch)
    /\ cycle' = [cycle EXCEPT !.requests = @ + 1, !.lastTotal = newTotal]
    /\ UNCHANGED << user, clickCount, pendingClicks, isProcessing,
                    serverConfirmedClicks, clicksToProcess, newTotal, result,
                    timers, fetches, achCheck, enqueued >>
    /\ UNCHANGED ledgerVars
    /\ UNCHANGED << grantVars, notifyVars, powerVars, laterVars >>

\* refreshSession returned an error, or its promise was rejected.
RefreshFailed ==
    \E thrown \in BOOLEAN :
        /\ pc = "refresh"
        /\ Finally(pendingClicks)
        /\ cycle' = [cycle EXCEPT
                        !.outcome = IF thrown THEN "threw" ELSE "failed",
                        !.toast = IF thrown THEN "none"
                                  ELSE "Session refresh failed"]
        /\ UNCHANGED << user, clickCount, pendingClicks,
                        serverConfirmedClicks, fetches, achCheck,
                        updatesInFlight, requestsForBatch, enqueued >>
        /\ UNCHANGED ledgerVars
        /\ UNCHANGED << grantVars, notifyVars, powerVars, laterVars >>

\* fetchScores reads the clicks table.
FetchScoresRead ==
    /\ user
    /\ BagCardinality(fetches) < MaxFetch
    /\ fetches' = fetches (+) SetToBag({qty})
    /\ UNCHANGED << user, clickCount, pendingClicks, isProcessing,
                    serverConfirmedClicks, pc, clicksToProcess, newTotal,
                    result, timers, achCheck, updatesInFlight, cycle,
                    requestsForBatch, enqueued >>
    /\ UNCHANGED ledgerVars
    /\ UNCHANGED << grantVars, notifyVars, powerVars, laterVars >>

\* fetchScores applies what it read and asks for an achievement check.
FetchScoresApply ==
    \E s \in BagToSet(fetches) :
        /\ fetches' = fetches (-) SetToBag({s})
        /\ serverConfirmedClicks' = s
        /\ clickCount' = DisplayedCount(s, pendingClicks)
        /\ achCheck' = s
        /\ UNCHANGED << user, pendingClicks, isProcessing, pc,
                        clicksToProcess, newTotal, result, timers,
                        updatesInFlight, cycle, requestsForBatch, enqueued >>
        /\ UNCHANGED ledgerVars
        /\ UNCHANGED << grantVars, notifyVars, powerVars, laterVars >>

\* fetchScores fails on one of its two reads.
FetchScoresError ==
    \E s \in BagToSet(fetches) :
        /\ fetches' = fetches (-) SetToBag({s})
        /\ UNCHANGED << user, clickCount, pendingClicks, isProcessing,
                        serverConfirmedClicks, pc, clicksToProcess, newTotal,
                        result, timers, achCheck, updatesInFlight, cycle,
                        requestsForBatch, enqueued >>
        /\ UNCHANGED ledgerVars
        /\ UNCHANGED << grantVars, notifyVars, powerVars, laterVars >>

\* The debounce timer of checkForClickAchievements fires and the server
\* action checkClickAchievements inserts the missing grants.
CheckForClickAchievements ==
    /\ achCheck # NoCheck
    /\ user_achievements' = CheckClickAchievements(user_achievements, achCheck)
    /\ achCheck' = NoCheck
    /\ UNCHANGED << user, clickCount, pendingClicks, isProcessing,
                    serverConfirmedClicks, pc, clicksToProcess, newTotal,
                    result, timers, fetches, updatesInFlight, cycle,
                    requestsForBatch, enqueued >>
    /\ UNCHANGED << qty, user_powers, prevQty >>
    /\ UNCHANGED << grantVars, notifyVars, powerVars, laterVars >>

\* checkClickAchievements fails on a read or on the insert: nothing is
\* written.
CheckForClickAchievementsError ==
    /\ achCheck # NoCheck
    /\ achCheck' = NoCheck
    /\ UNCHANGED << user, clickCount, pendingClicks, isProcessing,
                    serverConfirmedClicks, pc, clicksToProcess, newTotal,
                    result, timers, fetches, updatesInFlight, cycle,
                    requestsForBatch, enqueued >>
    /\ UNCHANGED ledgerVars
    /\ UNCHANGED << grantVars, notifyVars, powerVars, laterVars >>

\* No checkClickAchievements call and no sync-powers request is running.
GrantsIdle ==
    /\ evalPc = [e \in Evaluators |-> "idle"]
    /\ evalCount = [e \in Evaluators |-> 0]
    /\ achievementsToUnlock = [e \in Evaluators |-> {}]
    /\ insertedAchievements = [e \in Evaluators |-> {}]
    /\ evalOutcome = [e \in Evaluators |-> "none"]
    /\ lostPowers = {}
    /\ sawLost = [e \in Evaluators |-> {}]
    /\ syncPc = [s \in Syncers |-> "idle"]

\* No notification is pending and none is on its way.
NotifyIdle ==
    /\ pendingAchievements = EmptyBag
    /\ notified = {}
    /\ rtDue = FALSE
    /\ rtSnap = {}
    /\ newAchievements = {}
    /\ marking = {}

\* The power lifecycle is not looked at: no row, no call.
PowersIdle ==
    /\ special_power = NoRow
    /\ user_power = NoRow
    /\ now = 0
    /\ lastCall = NoCall

\* No concurrent calls of the power functions are looked at.
RaceIdle ==
    /\ callOp = "none"
    /\ callPc = [c \in Callers |-> "idle"]
    /\ readRow = [c \in Callers |-> NoRow]
    /\ callRet = [c \in Callers |-> FALSE]
    /\ startRow = NoRow

\* None of the parts that are looked at on their own takes a step.
\* The Reconciliation Monitor is not looked at.
ReconcileIdle ==
    /\ powerRows = << >>
    /\ activePowers = << >>
    /\ passLog = << >>

\* getClickMultiplier is not looked at.
MultiplierIdle ==
    /\ powerList = << >>
    /\ multiplier = 0

\* The delays of the click queue are not looked at.
BackoffIdle ==
    /\ clock = 0
    /\ lastProcessedTimestamp = 0
    /\ nextBatchDelays = << >>

NoTimer == [kind |-> "none", arg |-> 0]

NoRun == [at |-> "idle", kind |-> "none", arg |-> 0]

\* No achievement check is scheduled or running.
ChecksIdle ==
    /\ achievementUpdateInProgress = FALSE
    /\ achievementCheckDebounce = NoTimer
    /\ achievementCheck = NoRun
    /\ userRank = 0
    /\ checksApplied = 0
    /\ clickRequested = 0
    /\ clickEvaluated = 0

LaterIdle ==
    RaceIdle /\ ReconcileIdle /\ MultiplierIdle /\ BackoffIdle /\ ChecksIdle

Init ==
    /\ user = FALSE
    /\ clickCount = 0
    /\ pendingClicks = 0
    /\ isProcessing = FALSE
    /\ serverConfirmedClicks = 0
    /\ pc = "idle"
    /\ clicksToProcess = 0
    /\ newTotal = 0
    /\ result = NoResult
    /\ timers = 0
    /\ fetches = EmptyBag
    /\ achCheck = NoCheck
    /\ qty \in StartTotals
    /\ user_powers = [id \in PowerIds |-> 0]
    /\ user_achievements = [t \in ClickAchievements |-> 0]
    /\ prevQty = qty
    /\ updatesInFlight = 0
    /\ cycle = NoCycle
    /\ requestsForBatch = 0
    /\ enqueued = 0
    /\ rewardPower = [t \in ClickAchievements |-> NoPower]
    /\ GrantsIdle
    /\ NotifyIdle
    /\ PowersIdle
    /\ LaterIdle
    /\ startTotal = qty

Next ==
    \/ SetupAuth
    \/ HandleClickUpdateFlush
    \/ HandleClickUpdateQueued
    \/ TimerFlush
    \/ TimerSkip
    \/ UpdateClickActionOk
    \/ UpdateClickActionRejected
    \/ UpdateClickActionFails
    \/ FlushSucceeded
    \/ FlushNeedsRefresh
    \/ FlushFailed
    \/ RefreshedRetry
    \/ RefreshFailed
    \/ FetchScoresRead
    \/ FetchScoresApply
    \/ FetchScoresError
    \/ CheckForClickAchievements
    \/ CheckForClickAchievementsError

Spec == Init /\ [][Next]_vars

\* The event loop runs every due timer and continuation, and every request
\* sent to the server or to the auth service is answered.
LiveSpec ==
    /\ Spec
    /\ WF_vars(TimerFlush)
    /\ WF_vars(TimerSkip)
    /\ WF_vars(UpdateClickActionOk \/ UpdateClickActionRejected
                    \/ UpdateClickActionFails)
    /\ WF_vars(FlushSucceeded)
    /\ WF_vars(FlushNeedsRefresh)
    /\ WF_vars(FlushFailed)
    /\ WF_vars(RefreshedRetry \/ RefreshFailed)

(***************************************************************************)
(* The Ledger on its own: totals written by any writer of the clicks row,  *)
(* each followed by the trigger, and achievement evaluations.              *)
(***************************************************************************)
\* An UPDATE of clicks.qty with the trigger check_power_milestones_trigger.
LedgerSetTotal ==
    \E n \in SampleTotals :
        /\ SetTotalAccepts(qty, n)
        /\ prevQty' = qty
        /\ qty' = n
        /\ user_powers' = CheckPowerMilestones(user_powers, n)
        /\ achCheck' = n
        /\ UNCHANGED << user, clickCount, pendingClicks, isProcessing,
                        serverConfirmedClicks, pc, clicksToProcess, newTotal,
                        result, timers, fetches, updatesInFlight, cycle,
                        requestsForBatch, enqueued, user_achievements >>
        /\ UNCHANGED << grantVars, notifyVars, powerVars, laterVars >>

\* checkClickAchievements for the total of the last update.
LedgerCheckClickAchievements ==
    /\ achCheck # NoCheck
    /\ user_achievements' = CheckClickAchievements(user_achievements, achCheck)
    /\ achCheck' = NoCheck
    /\ UNCHANGED << user, clickCount, pendingClicks, isProcessing,
                    serverConfirmedClicks, pc, clicksToProcess, newTotal,
                    result, timers, fetches, updatesInFlight, cycle,
                    requestsForBatch, enqueued >>
    /\ UNCHANGED << qty, user_powers, prevQty >>
    /\ UNCHANGED << grantVars, notifyVars, powerVars, laterVars >>

NextLedger ==
    \/ LedgerSetTotal
    \/ LedgerCheckClickAchievements

SpecLedger == Init /\ [][NextLedger]_vars

(***************************************************************************)
(* The Reward Grantor: concurrent checkClickAchievements calls, the        *)
(* milestone trigger and the sync-powers endpoint, each read and each      *)
(* insert being a step of its own.                                         *)
(***************************************************************************)
\* An UPDATE of clicks.qty with the trigger check_power_milestones_trigger.
GrantsSetTotal ==
    \E n \in GrantTotals :
        /\ SetTotalAccepts(qty, n)
        /\ prevQty' = qty
        /\ qty' = n
        /\ user_powers' = CheckPowerMilestones(user_powers, n)
        /\ UNCHANGED << user_achievements, clientVars, grantVars,
                        notifyVars, powerVars, laterVars >>

\* checkClickAchievements up to the filter: the achievements with
\* threshold <= clickCount and the user's rows are read.
CheckClickAchievementsRead(e) ==
    \E count \in GrantTotals, ok \in BOOLEAN :
        /\ evalPc[e] = "idle"
        /\ count <= qty
        /\ evalCount' = [evalCount EXCEPT ![e] = count]
        /\ sawLost' = [sawLost EXCEPT ![e] = lostPowers]
        /\ insertedAchievements' = [insertedAchievements EXCEPT ![e] = {}]
        /\ IF ok /\ AchievementsToUnlock(user_achievements, count) # {}
            THEN /\ achievementsToUnlock' =
                        [achievementsToUnlock EXCEPT
                            ![e] = AchievementsToUnlock(user_achievements,
                                                        count)]
                 /\ evalPc' = [evalPc EXCEPT ![e] = "insert"]
                 /\ evalOutcome' = [evalOutcome EXCEPT ![e] = "running"]
            ELSE /\ achievementsToUnlock' =
                        [achievementsToUnlock EXCEPT ![e] = {}]
                 /\ evalPc' = evalPc
                 /\ evalOutcome' =
                        [evalOutcome EXCEPT
                            ![e] = IF ok THEN "nothing" ELSE "error"]
        /\ UNCHANGED << lostPowers, syncPc, rewardPower >>
        /\ UNCHANGED << ledgerVars, clientVars, notifyVars, powerVars, laterVars >>

\* checkClickAchievements inserts the rows of achievementsToUnlock.
CheckClickAchievementsInsert(e) ==
    \E ok \in BOOLEAN :
        /\ evalPc[e] = "insert"
        /\ achievementsToUnlock' = [achievementsToUnlock EXCEPT ![e] = {}]
        /\ IF /\ ok
              /\ ~UniqueViolation(user_achievements, achievementsToUnlock[e])
            THEN /\ user_achievements' =
                        InsertRows(user_achievements, achievementsToUnlock[e])
                 /\ insertedAchievements' =
                        [insertedAchievements EXCEPT
                            ![e] = achievementsToUnlock[e]]
                 /\ evalPc' = [evalPc EXCEPT ![e] = "powers"]
                 /\ evalOutcome' = evalOutcome
            ELSE /\ user_achievements' = user_achievements
                 /\ insertedAchievements' = insertedAchievements
                 /\ evalPc' = [evalPc EXCEPT ![e] = "idle"]
                 /\ evalOutcome' =
                        [evalOutcome EXCEPT
                            ![e] = IF ok THEN "conflict" ELSE "error"]
        /\ UNCHANGED << evalCount, lostPowers, sawLost, syncPc, rewardPower >>
        /\ UNCHANGED << qty, user_powers, prevQty >>
        /\ UNCHANGED << clientVars, notifyVars, powerVars, laterVars >>

\* grantSpecialPowersFromAchievements for the inserted rows, and the return
\* of insertedAchievements.
GrantSpecialPowersFromAchievements(e) ==
    \E ok \in BOOLEAN :
        /\ evalPc[e] = "powers"
        /\ evalPc' = [evalPc EXCEPT ![e] = "idle"]
        /\ LET powerIds ==
                 RewardedPowers(rewardPower, insertedAchievements[e])
           IN  IF powerIds = {} \/ (ok /\ ~UniqueViolation(user_powers,
                                                          powerIds))
                THEN /\ user_powers' = InsertRows(user_powers, powerIds)
                     /\ lostPowers' = lostPowers
                     /\ evalOutcome' =
                            [evalOutcome EXCEPT ![e] = "granted"]
                ELSE /\ user_powers' = user_powers
                     /\ lostPowers' =
                            lostPowers \cup
                                { <<p, evalCount[e]>> :
                                    p \in { q \in powerIds :
                                              user_powers[q] = 0 } }
                     /\ evalOutcome' =
                            [evalOutcome EXCEPT ![e] = "powersFailed"]
        /\ UNCHANGED << evalCount, achievementsToUnlock, insertedAchievements,
                        sawLost, syncPc, rewardPower >>
        /\ UNCHANGED << qty, user_achievements, prevQty >>
        /\ UNCHANGED << clientVars, notifyVars, powerVars, laterVars >>

\* The sync-powers endpoint reads the user's row of the auto-clicker power.
SyncPowersRead(s) ==
    /\ syncPc[s] = "idle"
    /\ syncPc' = [syncPc EXCEPT
                    ![s] = IF user_powers[AutoClickerPower] >= 1
                            THEN "existing" ELSE "absent"]
    /\ UNCHANGED << rewardPower, evalPc, evalCount, achievementsToUnlock,
                    insertedAchievements, evalOutcome, lostPowers, sawLost >>
    /\ UNCHANGED << ledgerVars, clientVars, notifyVars, powerVars, laterVars >>

\* The sync-powers endpoint creates the row it did not find; a row it found
\* is only activated.
SyncPowersWrite(s) ==
    \E ok \in BOOLEAN :
        /\ syncPc[s] # "idle"
        /\ syncPc' = [syncPc EXCEPT ![s] = "idle"]
        /\ IF /\ syncPc[s] = "absent"
              /\ ok
              /\ ~UniqueViolation(user_powers, {AutoClickerPower})
            THEN user_powers' = InsertRows(user_powers, {AutoClickerPower})
            ELSE user_powers' = user_powers
        /\ UNCHANGED << rewardPower, evalPc, evalCount, achievementsToUnlock,
                        insertedAchievements, evalOutcome, lostPowers,
                        sawLost >>
        /\ UNCHANGED << qty, user_achievements, prevQty >>
        /\ UNCHANGED << clientVars, notifyVars, powerVars, laterVars >>

\* The hook is not mounted: the click queue takes no step.
ClientIdle ==
    /\ user = FALSE
    /\ clickCount = 0
    /\ pendingClicks = 0
    /\ isProcessing = FALSE
    /\ serverConfirmedClicks = 0
    /\ pc = "idle"
    /\ clicksToProcess = 0
    /\ newTotal = 0
    /\ result = NoResult
    /\ timers = 0
    /\ fetches = EmptyBag
    /\ achCheck = NoCheck
    /\ updatesInFlight = 0
    /\ cycle = NoCycle
    /\ requestsForBatch = 0
    /\ enqueued = 0

InitGrants ==
    /\ ClientIdle
    /\ qty = 0
    /\ prevQty = 0
    /\ user_powers = [id \in PowerIds |-> 0]
    /\ user_achievements = [t \in ClickAchievements |-> 0]
    /\ rewardPower \in RewardCatalogs
    /\ GrantsIdle
    /\ NotifyIdle
    /\ PowersIdle
    /\ LaterIdle
    /\ startTotal = qty

NextGrants ==
    \/ GrantsSetTotal
    \/ \E e \in Evaluators : CheckClickAchievementsRead(e)
    \/ \E e \in Evaluators : CheckClickAchievementsInsert(e)
    \/ \E e \in Evaluators : GrantSpecialPowersFromAchievements(e)
    \/ \E s \in Syncers : SyncPowersRead(s)
    \/ \E s \in Syncers : SyncPowersWrite(s)

SpecGrants == InitGrants /\ [][NextGrants]_vars

(***************************************************************************)
(* The Power Lifecycle Manager: one power of the catalog and the user's    *)
(* row of it.                                                              *)
(***************************************************************************)
\* level and upgrade_confirmed of a row inserted without these columns.
DefaultLevel == 1

\* activate_user_power: power_expired.
PowerExpired(row, power, t) ==
    IF row.level < power.max_level
        THEN row.expires_at # Null /\ row.expires_at < t
        ELSE FALSE

\* Variant of CanActivate that does not look at uses_left.
CanActivateIgnoringUses(row, power, t) ==
    /\ row.held
    /\ ~row.is_active
    /\ ~PowerExpired(row, power, t)

\* activate_user_power: the condition of its UPDATE.
CanActivate(row, power, t) ==
    /\ row.held
    /\ ~row.is_active
    /\ ~PowerExpired(row, power, t)
    /\ (row.uses_left = Null \/ row.uses_left > 0)

\* activate_user_power: its UPDATE.
Activated(row) ==
    [row EXCEPT !.is_active = TRUE,
                !.uses_left = IF @ # Null THEN @ - 1 ELSE Null]

\* Variant of CanUpgrade without the check of the level.
CanUpgradeAnyLevel(row, power) ==
    /\ row.held
    /\ (power.requires_confirmation => row.upgrade_confirmed)

\* Variant of CanUpgrade without the check of the confirmation.
CanUpgradeUnconfirmed(row, power) ==
    /\ row.held
    /\ row.level < power.max_level

\* upgrade_user_power: the checks before its UPDATE.
CanUpgrade(row, power) ==
    /\ row.held
    /\ ~(row.level >= power.max_level)
    /\ ~(power.requires_confirmation /\ ~row.upgrade_confirmed)

\* upgrade_user_power: expires_at of its UPDATE; level is the level of the
\* row before the UPDATE.
UpgradedExpiry(row, power, t) ==
    IF (row.level + 1) >= power.max_level THEN Null
    ELSE IF power.duration # Null THEN t + power.duration * row.level
    ELSE Null

\* upgrade_user_power: its UPDATE.
Upgraded(row, power, t) ==
    [row EXCEPT !.level = @ + 1,
                !.upgrade_confirmed = FALSE,
                !.expires_at = UpgradedExpiry(row, power, t)]

\* grant_power_to_user: the row it inserts.
GrantedRow(power, t) ==
    [held |-> TRUE, level |-> 1, is_active |-> TRUE,
     expires_at |-> IF power.duration # Null THEN t + power.duration
                    ELSE Null,
     uses_left |-> Null, upgrade_confirmed |-> FALSE]

\* Variant of RewardedRow that never sets expires_at.
RewardedRowPermanent(power, t) ==
    [held |-> TRUE, level |-> DefaultLevel, is_active |-> TRUE,
     expires_at |-> Null, uses_left |-> Null, upgrade_confirmed |-> FALSE]

\* grantSpecialPowersFromAchievements: the row it inserts.  power.duration
\* is tested for truth, so a duration of 0 counts as none; level and
\* upgrade_confirmed are not given.
RewardedRow(power, t) ==
    [held |-> TRUE, level |-> DefaultLevel, is_active |-> TRUE,
     expires_at |-> IF power.duration # Null /\ power.duration # 0
                        THEN t + power.duration
                    ELSE Null,
     uses_left |-> Null, upgrade_confirmed |-> FALSE]

\* The row of sync-powers for a power the user does not hold.
SyncedRow ==
    [held |-> TRUE, level |-> 1, is_active |-> TRUE, expires_at |-> Null,
     uses_left |-> Null, upgrade_confirmed |-> TRUE]

\* .or(expires_at.gt.now, expires_at.is.null)
NotExpiredAt(row, t) == row.expires_at = Null \/ row.expires_at > t

Call(op, ret) ==
    [op |-> op, ret |-> ret,
     upgrades |-> IF op = "upgrade" /\ ret THEN lastCall.upgrades + 1
                  ELSE lastCall.upgrades]

\* What a call of the power lifecycle leaves alone.
PowerFrame ==
    /\ UNCHANGED << special_power, now >>
    /\ UNCHANGED << ledgerVars, clientVars, grantVars, notifyVars,
                    laterVars >>

\* grant_power_to_user, called by the trigger at the milestone of the power.
GrantPowerRow ==
    /\ ~user_power.held
    /\ user_power' = GrantedRow(special_power, now)
    /\ lastCall' = Call("grant", TRUE)
    /\ PowerFrame

\* grantSpecialPowersFromAchievements: the insert into user_powers.
AchievementPowerRow ==
    /\ ~user_power.held
    /\ user_power' = RewardedRow(special_power, now)
    /\ lastCall' = Call("reward", TRUE)
    /\ PowerFrame

\* POST /api/sync-powers: what it makes of the row of a power.
SyncPowersRow(row) ==
    IF ~row.held THEN SyncedRow
    ELSE IF ~row.is_active
          THEN [row EXCEPT !.is_active = TRUE, !.upgrade_confirmed = TRUE]
          ELSE row

\* POST /api/sync-powers for this power.
SyncPowers ==
    /\ user_power' = SyncPowersRow(user_power)
    /\ lastCall' = Call("sync", TRUE)
    /\ PowerFrame

\* ensureAutoClickerInDatabase of the click hook, run while the cache holds
\* an auto-clicker: the row is made active, or inserted.
EnsureAutoClickerInDatabase ==
    /\ user_power' =
          IF ~user_power.held
            THEN [SyncedRow EXCEPT !.upgrade_confirmed = FALSE]
          ELSE IF ~user_power.is_active
            THEN [user_power EXCEPT !.is_active = TRUE]
          ELSE user_power
    /\ lastCall' = Call("ensure", TRUE)
    /\ PowerFrame

\* loadActivePowers of the click hook, run while the cache holds an
\* auto-clicker and the store reports no active one: the row is updated to
\* is_active and upgrade_confirmed, or inserted with both; a failed request
\* changes nothing.
LoadActivePowers ==
    \E ok \in BOOLEAN :
        /\ user_power' =
              IF ~ok \/ (user_power.held /\ user_power.is_active)
                THEN user_power
              ELSE IF user_power.held
                THEN [user_power EXCEPT !.is_active = TRUE,
                                        !.upgrade_confirmed = TRUE]
              ELSE SyncedRow
        /\ lastCall' = Call("load", ok)
        /\ PowerFrame

\* The row is in the answer of the query of getActiveUserPowers:
\* is_active and expires_at later than now or null.
ActiveAt(row, t) == row.held /\ row.is_active /\ NotExpiredAt(row, t)

\* getActiveUserPowers: the query of the active rows and, when it finds
\* none, the update of the inactive rows that are not expired, followed by
\* the query again.  others: the user has active rows of other powers.
\* The call returns whether the row of this power is in its answer.
GetActiveUserPowers ==
    \E others \in BOOLEAN, updateOk \in BOOLEAN :
        /\ user_power' =
              IF /\ ~others
                 /\ updateOk
                 /\ user_power.held
                 /\ ~user_power.is_active
                 /\ NotExpiredAt(user_power, now)
                THEN [user_power EXCEPT !.is_active = TRUE]
                ELSE user_power
        /\ lastCall' = Call("read", ActiveAt(user_power', now))
        /\ PowerFrame

\* activate_user_power, called from the list of the player's powers.
ActivateUserPower ==
    /\ IF CanActivate(user_power, special_power, now)
        THEN /\ user_power' = Activated(user_power)
             /\ lastCall' = Call("activate", TRUE)
        ELSE /\ user_power' = user_power
             /\ lastCall' = Call("activate", FALSE)
    /\ PowerFrame

\* POST /api/powers/activate: the call of activate_user_power, then the
\* read of the row and the update of a row that is not active.
ActivatePowerRoute ==
    \E rpcOk \in BOOLEAN, forceOk \in BOOLEAN :
        /\ LET can == CanActivate(user_power, special_power, now)
               after == IF rpcOk /\ can THEN Activated(user_power)
                        ELSE user_power
           IN  /\ user_power' =
                     IF rpcOk /\ forceOk /\ after.held /\ ~after.is_active
                        THEN [after EXCEPT !.is_active = TRUE]
                        ELSE after
               /\ lastCall' = Call("route", rpcOk /\ can)
        /\ PowerFrame

\* upgrade_user_power.
UpgradeUserPower ==
    /\ IF CanUpgrade(user_power, special_power)
        THEN /\ user_power' = Upgraded(user_power, special_power, now)
             /\ lastCall' = Call("upgrade", TRUE)
        ELSE /\ user_power' = user_power
             /\ lastCall' = Call("upgrade", FALSE)
    /\ PowerFrame

\* confirm_power_upgrade.
ConfirmPowerUpgrade ==
    /\ IF user_power.held
        THEN /\ user_power' = [user_power EXCEPT !.upgrade_confirmed = TRUE]
             /\ lastCall' = Call("confirm", TRUE)
        ELSE /\ user_power' = user_power
             /\ lastCall' = Call("confirm", FALSE)
    /\ PowerFrame

\* Time passes.
Tick ==
    /\ now + TickSeconds <= MaxTime
    /\ now' = now + TickSeconds
    /\ UNCHANGED << special_power, user_power, lastCall >>
    /\ UNCHANGED << ledgerVars, clientVars, grantVars, notifyVars,
                    laterVars >>

\* The rows of user_powers the calls can meet: none, or a row with a level
\* of the power.
StartRows(power) ==
    {NoRow} \cup
    [ held : {TRUE}, level : 1..power.max_level, is_active : BOOLEAN,
      expires_at : StartExpiries, uses_left : StartUses,
      upgrade_confirmed : BOOLEAN ]

InitPowers ==
    /\ ClientIdle
    /\ qty = 0
    /\ prevQty = 0
    /\ user_powers = [id \in PowerIds |-> 0]
    /\ user_achievements = [t \in ClickAchievements |-> 0]
    /\ rewardPower = [t \in ClickAchievements |-> NoPower]
    /\ GrantsIdle
    /\ NotifyIdle
    /\ special_power \in [ max_level : MaxLevels, duration : Durations,
                           requires_confirmation : BOOLEAN ]
    /\ user_power \in StartRows(special_power)
    /\ now = 0
    /\ lastCall = NoCall
    /\ LaterIdle
    /\ startTotal = qty

NextPowers ==
    \/ GrantPowerRow
    \/ AchievementPowerRow
    \/ SyncPowers
    \/ EnsureAutoClickerInDatabase
    \/ LoadActivePowers
    \/ GetActiveUserPowers
    \/ ActivateUserPower
    \/ ActivatePowerRoute
    \/ UpgradeUserPower
    \/ ConfirmPowerUpgrade
    \/ Tick

SpecPowers == InitPowers /\ [][NextPowers]_vars

(***************************************************************************)
(* Two calls of activate_user_power, or of upgrade_user_power, on the same *)
(* row at the same time.  Each statement of the function is a step: it     *)
(* sees the row as the statements committed before it left it.             *)
(***************************************************************************)
RaceFrame ==
    /\ UNCHANGED << special_power, now, lastCall, callOp, startRow >>
    /\ UNCHANGED << ledgerVars, clientVars, grantVars, notifyVars,
                    reconcileVars, multiplierVars, backoffVars,
                    checkVars, startTotal >>

\* The call returns.
Return(c, ret) ==
    /\ callPc' = [callPc EXCEPT ![c] = "done"]
    /\ callRet' = [callRet EXCEPT ![c] = ret]

Goto(c, to) ==
    /\ callPc' = [callPc EXCEPT ![c] = to]
    /\ UNCHANGED callRet

\* activate_user_power: SELECT EXISTS(...) INTO power_exists.
ActivateExists(c) ==
    /\ callOp = "activate"
    /\ callPc[c] = "idle"
    /\ readRow' = [readRow EXCEPT ![c] = user_power]
    /\ IF user_power.held THEN Goto(c, "level") ELSE Return(c, FALSE)
    /\ UNCHANGED user_power
    /\ RaceFrame

\* activate_user_power: the SELECTs of level, is_active, expires_at and
\* uses_left, one after the other.
ActivateSelect(c) ==
    /\ callOp = "activate"
    /\ \/ /\ callPc[c] = "level"
          /\ readRow' = [readRow EXCEPT ![c].level = user_power.level]
          /\ Goto(c, "is_active")
       \/ /\ callPc[c] = "is_active"
          /\ readRow' = [readRow EXCEPT ![c].is_active = user_power.is_active]
          /\ Goto(c, "expires_at")
       \/ /\ callPc[c] = "expires_at"
          /\ readRow' = [readRow EXCEPT
                            ![c].expires_at = user_power.expires_at]
          /\ Goto(c, "uses_left")
       \/ /\ callPc[c] = "uses_left"
          /\ readRow' = [readRow EXCEPT ![c].uses_left = user_power.uses_left]
          /\ Goto(c, "update")
    /\ UNCHANGED user_power
    /\ RaceFrame

\* activate_user_power: the IF on what was read, and its UPDATE of the row
\* as it is now.
ActivateUpdate(c) ==
    /\ callOp = "activate"
    /\ callPc[c] = "update"
    /\ IF CanActivate(readRow[c], special_power, now)
        THEN /\ user_power' = Activated(user_power)
             /\ Return(c, TRUE)
        ELSE /\ user_power' = user_power
             /\ Return(c, FALSE)
    /\ UNCHANGED readRow
    /\ RaceFrame

\* upgrade_user_power: SELECT EXISTS(...) INTO power_exists.
UpgradeExists(c) ==
    /\ callOp = "upgrade"
    /\ callPc[c] = "idle"
    /\ readRow' = [readRow EXCEPT ![c] = user_power]
    /\ IF user_power.held THEN Goto(c, "level") ELSE Return(c, FALSE)
    /\ UNCHANGED user_power
    /\ RaceFrame

\* upgrade_user_power: the SELECT of level and of the columns of the power,
\* and the check of the level.
UpgradeSelect(c) ==
    /\ callOp = "upgrade"
    /\ callPc[c] = "level"
    /\ readRow' = [readRow EXCEPT ![c].level = user_power.level]
    /\ IF user_power.level >= special_power.max_level
        THEN Return(c, FALSE)
        ELSE Goto(c, "upgrade_confirmed")
    /\ UNCHANGED user_power
    /\ RaceFrame

\* upgrade_user_power: the EXISTS(... upgrade_confirmed = TRUE) of a power
\* that requires confirmation.
UpgradeConfirmed(c) ==
    /\ callOp = "upgrade"
    /\ callPc[c] = "upgrade_confirmed"
    /\ readRow' = [readRow EXCEPT
                      ![c].upgrade_confirmed = user_power.upgrade_confirmed]
    /\ IF special_power.requires_confirmation
            /\ ~user_power.upgrade_confirmed
        THEN Return(c, FALSE)
        ELSE Goto(c, "update")
    /\ UNCHANGED user_power
    /\ RaceFrame

\* upgrade_user_power: its UPDATE of the row as it is now.
UpgradeUpdate(c) ==
    /\ callOp = "upgrade"
    /\ callPc[c] = "update"
    /\ IF CanUpgrade(readRow[c], special_power)
        THEN /\ user_power' = Upgraded(user_power, special_power, now)
             /\ Return(c, TRUE)
        ELSE /\ user_power' = user_power
             /\ Return(c, FALSE)
    /\ UNCHANGED readRow
    /\ RaceFrame

\* NOW() of the two calls.
RaceTimes == {0, MaxTime}

InitRace ==
    /\ ClientIdle
    /\ qty = 0
    /\ prevQty = 0
    /\ user_powers = [id \in PowerIds |-> 0]
    /\ user_achievements = [t \in ClickAchievements |-> 0]
    /\ rewardPower = [t \in ClickAchievements |-> NoPower]
    /\ GrantsIdle
    /\ NotifyIdle
    /\ special_power \in [ max_level : MaxLevels, duration : Durations,
                           requires_confirmation : BOOLEAN ]
    /\ user_power \in StartRows(special_power)
    /\ now \in RaceTimes
    /\ lastCall = NoCall
    /\ callOp \in {"activate", "upgrade"}
    /\ callPc = [c \in Callers |-> "idle"]
    /\ readRow = [c \in Callers |-> NoRow]
    /\ callRet = [c \in Callers |-> FALSE]
    /\ startRow = user_power
    /\ ReconcileIdle
    /\ MultiplierIdle
    /\ BackoffIdle
    /\ ChecksIdle
    /\ startTotal = qty

NextRace ==
    \/ \E c \in Callers : ActivateExists(c)
    \/ \E c \in Callers : ActivateSelect(c)
    \/ \E c \in Callers : ActivateUpdate(c)
    \/ \E c \in Callers : UpgradeExists(c)
    \/ \E c \in Callers : UpgradeSelect(c)
    \/ \E c \in Callers : UpgradeConfirmed(c)
    \/ \E c \in Callers : UpgradeUpdate(c)

SpecRace == InitRace /\ [][NextRace]_vars

(***************************************************************************)
(* The Reconciliation Monitor: the cached activePowers of useAchievements  *)
(* against the user_powers rows of a multiplier power and of the           *)
(* auto-clicker power.  The function get_active_powers is not part of the  *)
(* sources; it is modelled as the query of the rows marked active.         *)
(***************************************************************************)
\* Power 1 has effect_type multiplier, the auto-clicker effect_type
\* auto_click.
ReconcilePowers == {1, AutoClickerPower}

\* rpc get_active_powers: the rows of the user that are marked active.
GetActivePowers(rows) ==
    [p \in ReconcilePowers |->
        IF rows[p].held /\ rows[p].is_active THEN rows[p] ELSE NoRow]

\* powers.length
Length(powers) == Cardinality({p \in ReconcilePowers : powers[p].held})

\* hasAutoClicker on the cache, hasAutoClickerInDb on the answer of the
\* query: some power of effect_type auto_click is in the list.
HasAutoClicker(powers) == powers[AutoClickerPower].held

\* Variant of ArePowersEqual that compares the two lengths only.
ArePowersEqualByLength(powers1, powers2) == Length(powers1) = Length(powers2)

\* arePowersEqual
ArePowersEqual(powers1, powers2) ==
    /\ Length(powers1) = Length(powers2)
    /\ \A p \in ReconcilePowers :
          powers2[p].held =>
              /\ powers1[p].held
              /\ powers1[p].is_active = powers2[p].is_active
              /\ powers1[p].upgrade_confirmed = powers2[p].upgrade_confirmed
              /\ powers1[p].level = powers2[p].level

\* synchronizeDbPowersToMemory on the cache and the rows; ok tells which of
\* its requests succeed (rpc: the first query, api: POST /api/sync-powers,
\* refresh: the query after it).  The result is the cache and the rows it
\* leaves, what it returns and the powers whose row it wrote.
Synchronized(cache, rows, ok) ==
    LET none == [p \in ReconcilePowers |-> NoRow]
        latestPowers == IF ok.rpc THEN GetActivePowers(rows) ELSE none
        synced == [rows EXCEPT ![AutoClickerPower] = SyncPowersRow(@)]
        kept == [cache |-> cache, rows |-> rows, ret |-> TRUE, wrote |-> {}]
    IN  IF Length(latestPowers) > 0 /\ Length(cache) = 0
            THEN [kept EXCEPT !.cache = latestPowers]
        ELSE IF HasAutoClicker(latestPowers) /\ ~HasAutoClicker(cache)
            THEN [kept EXCEPT !.cache = latestPowers]
        ELSE IF ~HasAutoClicker(latestPowers) /\ HasAutoClicker(cache)
            THEN IF ok.api
                    THEN [cache |-> IF ok.refresh THEN GetActivePowers(synced)
                                    ELSE none,
                          rows |-> synced,
                          ret |-> TRUE,
                          wrote |-> IF synced # rows THEN {AutoClickerPower}
                                    ELSE {}]
                    ELSE [kept EXCEPT !.ret = FALSE]
        ELSE IF ~ArePowersEqual(cache, latestPowers)
            THEN [kept EXCEPT !.cache = latestPowers]
        ELSE kept

\* One run of synchronizeDbPowersToMemory.
SynchronizeDbPowersToMemory ==
    /\ Len(passLog) < MaxPasses
    /\ \E ok \in [rpc : BOOLEAN, api : BOOLEAN, refresh : BOOLEAN] :
          LET run == Synchronized(activePowers, powerRows, ok)
          IN  /\ activePowers' = run.cache
              /\ powerRows' = run.rows
              /\ passLog' = Append(passLog,
                    [cacheBefore |-> activePowers, rowsBefore |-> powerRows,
                     cacheAfter |-> run.cache, rowsAfter |-> run.rows,
                     ret |-> run.ret, wrote |-> run.wrote,
                     ok |-> ok.rpc /\ ok.api /\ ok.refresh,
                     rpc |-> ok.rpc])
    /\ UNCHANGED << ledgerVars, clientVars, grantVars, notifyVars, powerVars,
                    raceVars, multiplierVars, backoffVars,
                    checkVars, startTotal >>

\* The rows of a power in the store or in the cache: none, or a row with no
\* expiry and no count of uses.
ReconcileRows ==
    {NoRow} \cup
    [ held : {TRUE}, level : {1, 2}, is_active : BOOLEAN,
      expires_at : {Null}, uses_left : {Null}, upgrade_confirmed : BOOLEAN ]

InitReconcile ==
    /\ ClientIdle
    /\ qty = 0
    /\ prevQty = 0
    /\ user_powers = [id \in PowerIds |-> 0]
    /\ user_achievements = [t \in ClickAchievements |-> 0]
    /\ rewardPower = [t \in ClickAchievements |-> NoPower]
    /\ GrantsIdle
    /\ NotifyIdle
    /\ PowersIdle
    /\ RaceIdle
    /\ powerRows \in [ReconcilePowers -> ReconcileRows]
    /\ activePowers \in [ReconcilePowers -> ReconcileRows]
    /\ passLog = << >>
    /\ MultiplierIdle
    /\ BackoffIdle
    /\ ChecksIdle
    /\ startTotal = qty

NextReconcile == SynchronizeDbPowersToMemory

SpecReconcile == InitReconcile /\ [][NextReconcile]_vars

(***************************************************************************)
(* getClickMultiplier on the cached activePowers.                          *)
(***************************************************************************)
\* effect_type and effect_value of the powers of the catalog.
EffectTypes == {"multiplier", "auto_click", "permanent"}
EffectValues == {2, 3}

\* up.power?.effect_value || 1
EffectValueOr1(value) == IF value = Null \/ value = 0 THEN 1 ELSE value

\* .filter(up => up.power?.effect_type === 'multiplier')
RECURSIVE MultiplierPowers(_)
MultiplierPowers(powers) ==
    IF powers = << >> THEN << >>
    ELSE IF Head(powers).effect_type = "multiplier"
        THEN << Head(powers) >> \o MultiplierPowers(Tail(powers))
    ELSE MultiplierPowers(Tail(powers))

\* .reduce((total, multiplier) => total * multiplier, 1)
RECURSIVE Reduce(_)
Reduce(values) ==
    IF values = << >> THEN 1
    ELSE Head(values) * Reduce(Tail(values))

\* .map(up => up.power?.effect_value || 1)
EffectValuesOf(powers) ==
    [i \in 1..Len(powers) |-> EffectValueOr1(powers[i].effect_value)]

\* Variant of ClickMultiplier that does not filter by effect_type.
ClickMultiplierOfAll(powers) == Reduce(EffectValuesOf(powers))

\* getClickMultiplier
ClickMultiplier(powers) ==
    LET multiplierPowers == EffectValuesOf(MultiplierPowers(powers))
    IN  IF Len(multiplierPowers) = 0 THEN 1
        ELSE Reduce(multiplierPowers)

\* The value shown for a power by PlayerPowers.
DisplayedEffect(up) ==
    EffectValueOr1(up.effect_value) * (IF up.level = 0 THEN 1 ELSE up.level)

GetClickMultiplier ==
    /\ multiplier = 0
    /\ multiplier' = ClickMultiplier(powerList)
    /\ UNCHANGED powerList
    /\ UNCHANGED << ledgerVars, clientVars, grantVars, notifyVars, powerVars,
                    raceVars, reconcileVars, backoffVars,
                    checkVars, startTotal >>

\* The lists of at most n active powers.
PowerLists(n) ==
    UNION { [1..k -> [effect_type : EffectTypes, effect_value : EffectValues,
                      level : {1, 2}]] : k \in 0..n }

InitMultiplier ==
    /\ ClientIdle
    /\ qty = 0
    /\ prevQty = 0
    /\ user_powers = [id \in PowerIds |-> 0]
    /\ user_achievements = [t \in ClickAchievements |-> 0]
    /\ rewardPower = [t \in ClickAchievements |-> NoPower]
    /\ GrantsIdle
    /\ NotifyIdle
    /\ PowersIdle
    /\ RaceIdle
    /\ ReconcileIdle
    /\ BackoffIdle
    /\ powerList \in PowerLists(MaxPowers)
    /\ multiplier = 0
    /\ ChecksIdle
    /\ startTotal = qty

NextMultiplier == GetClickMultiplier

SpecMultiplier == InitMultiplier /\ [][NextMultiplier]_vars

(***************************************************************************)
(* The delays of the click queue: the finally block of processClickQueue   *)
(* with calculateFibonacciBackoff.  Times are in milliseconds; a delay is  *)
(* kept in half milliseconds, as 1.5 * lastDelay need not be whole.        *)
(***************************************************************************)
BackoffSeed == 100
BackoffCap == 5000

\* Date.now() when the hook mounts; lastProcessedTimestamp is 0 then.
StartClock == 10000
\* Milliseconds an update request takes, and between two reads of
\* Date.now() in one run of processClickQueue.
FlightTimes == {0, 40}
ReadLags == {0, 1}
\* Milliseconds from a drain to the next click.
IdleTime == 3000

\* Variant of CalculateFibonacciBackoff without the cap.
UncappedBackoff(lastDelay) ==
    LET a == IF lastDelay = 0 THEN 2 * BackoffSeed ELSE 3 * lastDelay
        b == 2 * lastDelay
    IN  a + b

\* calculateFibonacciBackoff, in half milliseconds: a = 1.5 * lastDelay or
\* the seed, b = lastDelay, Math.min(a + b, 5000).
CalculateFibonacciBackoff(lastDelay) ==
    LET a == IF lastDelay = 0 THEN 2 * BackoffSeed ELSE 3 * lastDelay
        b == 2 * lastDelay
    IN  Min(a + b, 2 * BackoffCap)

\* One run of processClickQueue up to its finally block: the request takes
\* flight ms; a success stamps lastProcessedTimestamp; with clicks left the
\* next run is scheduled after the delay computed from the time since the
\* stamp, else the queue has drained.
ProcessClickQueueFinally ==
    /\ clock < MaxClock
    /\ Len(nextBatchDelays) < MaxDelays
    /\ \E flight \in FlightTimes, lag \in ReadLags,
          success \in BOOLEAN, more \in BOOLEAN :
          LET stamp == IF success THEN clock + flight
                       ELSE lastProcessedTimestamp
              t == clock + flight + lag
              timeSinceLastProcess == t - stamp
              nextBatchDelay ==
                  CalculateFibonacciBackoff(timeSinceLastProcess)
          IN  /\ lastProcessedTimestamp' = stamp
              /\ IF ~success \/ more
                  THEN /\ nextBatchDelays' =
                             Append(nextBatchDelays, nextBatchDelay)
                       /\ clock' = t + (nextBatchDelay \div 2)
                  ELSE /\ nextBatchDelays' = << >>
                       /\ clock' = t + IdleTime
    /\ UNCHANGED << ledgerVars, clientVars, grantVars, notifyVars, powerVars,
                    raceVars, reconcileVars, multiplierVars,
                    checkVars, startTotal >>

InitBackoff ==
    /\ ClientIdle
    /\ qty = 0
    /\ prevQty = 0
    /\ user_powers = [id \in PowerIds |-> 0]
    /\ user_achievements = [t \in ClickAchievements |-> 0]
    /\ rewardPower = [t \in ClickAchievements |-> NoPower]
    /\ GrantsIdle
    /\ NotifyIdle
    /\ PowersIdle
    /\ RaceIdle
    /\ ReconcileIdle
    /\ MultiplierIdle
    /\ clock = StartClock
    /\ lastProcessedTimestamp = 0
    /\ nextBatchDelays = << >>
    /\ ChecksIdle
    /\ startTotal = qty

NextBackoff == ProcessClickQueueFinally

SpecBackoff == InitBackoff /\ [][NextBackoff]_vars

(***************************************************************************)
(* The debounced achievement checks of useAchievements:                    *)
(* checkForClickAchievements and checkForRankAchievements share            *)
(* achievementCheckDebounceRef and achievementUpdateInProgressRef, and     *)
(* fetchScores asks for both.                                              *)
(***************************************************************************)
\* fetchScores results applied in one behaviour
MaxApplies == 3
\* clicks.qty of the user and the user's rank as fetchScores finds them.
CheckTotals == {25, 50, 100}
Ranks == {1, 2}

Max(a, b) == IF a > b THEN a ELSE b

\* checkForClickAchievements and checkForRankAchievements up to setTimeout:
\* nothing while a check is in progress, else the scheduled callback is
\* cleared and a new one is scheduled.
RequestCheck(inProgress, timer, kind, arg) ==
    IF inProgress THEN timer ELSE [kind |-> kind, arg |-> arg]

\* Variant of InProgressAfter that leaves the flag set after an exception.
InProgressAfterCatch(outcome) == outcome = "throw"

\* finally: achievementUpdateInProgressRef.current = false
InProgressAfter(outcome) == FALSE

CheckFrame ==
    UNCHANGED << ledgerVars, clientVars, grantVars, notifyVars, powerVars,
                 raceVars, reconcileVars, multiplierVars, backoffVars,
                 startTotal >>

\* fetchScores after its reads: checkForClickAchievements with the total,
\* then checkForRankAchievements when the rank differs from userRankRef.
FetchScoresChecks ==
    \E total \in CheckTotals, rank \in Ranks :
        /\ checksApplied < MaxApplies
        /\ total >= clickRequested
        /\ LET afterClick ==
                   RequestCheck(achievementUpdateInProgress,
                                achievementCheckDebounce, "click", total)
           IN  achievementCheckDebounce' =
                   IF rank # userRank
                       THEN RequestCheck(achievementUpdateInProgress,
                                         afterClick, "rank", rank)
                       ELSE afterClick
        /\ userRank' = rank
        /\ clickRequested' = total
        /\ checksApplied' = checksApplied + 1
        /\ UNCHANGED << achievementUpdateInProgress, achievementCheck,
                        clickEvaluated >>
        /\ CheckFrame

\* The scheduled callback runs up to its first await: the server action
\* checkClickAchievements or checkRankAchievements is called.  A callback is
\* scheduled only while no check is in progress, and there is one timer, so
\* no callback is running when it fires.
DebounceFires ==
    /\ achievementCheckDebounce.kind # "none"
    /\ achievementCheck.at = "idle"
    /\ achievementCheckDebounce' = NoTimer
    /\ achievementUpdateInProgress' = TRUE
    /\ achievementCheck' = [at |-> "action",
                            kind |-> achievementCheckDebounce.kind,
                            arg |-> achievementCheckDebounce.arg]
    /\ clickEvaluated' =
          IF achievementCheckDebounce.kind = "click"
              THEN Max(clickEvaluated, achievementCheckDebounce.arg)
              ELSE clickEvaluated
    /\ UNCHANGED << userRank, checksApplied, clickRequested >>
    /\ CheckFrame

\* The server action answers: no new achievements or an exception end the
\* callback, new achievements lead to getActiveUserPowers.
CheckAnswered ==
    \E outcome \in {"none", "some", "throw"} :
        /\ achievementCheck.at = "action"
        /\ IF outcome = "some"
              THEN /\ achievementCheck' = [achievementCheck EXCEPT
                                              !.at = "powers"]
                   /\ UNCHANGED achievementUpdateInProgress
              ELSE /\ achievementCheck' = NoRun
                   /\ achievementUpdateInProgress' = InProgressAfter(outcome)
        /\ UNCHANGED << achievementCheckDebounce, userRank, checksApplied,
                        clickRequested, clickEvaluated >>
        /\ CheckFrame

\* getActiveUserPowers answers or throws: the callback ends.
PowersAnswered ==
    \E outcome \in {"some", "throw"} :
        /\ achievementCheck.at = "powers"
        /\ achievementCheck' = NoRun
        /\ achievementUpdateInProgress' = InProgressAfter(outcome)
        /\ UNCHANGED << achievementCheckDebounce, userRank, checksApplied,
                        clickRequested, clickEvaluated >>
        /\ CheckFrame

InitChecks ==
    /\ ClientIdle
    /\ qty = 0
    /\ prevQty = 0
    /\ user_powers = [id \in PowerIds |-> 0]
    /\ user_achievements = [t \in ClickAchievements |-> 0]
    /\ rewardPower = [t \in ClickAchievements |-> NoPower]
    /\ GrantsIdle
    /\ NotifyIdle
    /\ PowersIdle
    /\ LaterIdle
    /\ startTotal = qty

NextChecks ==
    \/ FetchScoresChecks
    \/ DebounceFires
    \/ CheckAnswered
    \/ PowersAnswered

SpecChecks == InitChecks /\ [][NextChecks]_vars

\* The event loop runs a due callback, and the server actions answer.
LiveChecks ==
    /\ SpecChecks
    /\ WF_vars(DebounceFires)
    /\ WF_vars(CheckAnswered)
    /\ WF_vars(PowersAnswered)

\* The click queue and the achievement checks of one mounted hook.
NextGuards ==
    \/ SetupAuth
    \/ HandleClickUpdateFlush
    \/ HandleClickUpdateQueued
    \/ TimerFlush
    \/ TimerSkip
    \/ UpdateClickActionOk
    \/ UpdateClickActionRejected
    \/ UpdateClickActionFails
    \/ FlushSucceeded
    \/ FlushNeedsRefresh
    \/ FlushFailed
    \/ RefreshedRetry
    \/ RefreshFailed
    \/ NextChecks

SpecGuards == Init /\ [][NextGuards]_vars

(***************************************************************************)
(* Achievement notifications of one useAchievements instance.  The list    *)
(* pendingAchievements is kept as a bag of achievement ids: its order      *)
(* plays no part.                                                          *)
(***************************************************************************)
\* getPendingAchievementNotifications: the user's rows with notified false.
PendingRows(grants, seen) ==
    { t \in ClickAchievements : grants[t] >= 1 /\ t \notin seen }

\* setPendingAchievements(prev => [...prev, ...achievements])
AddPending(pending, achievements) == pending (+) SetToBag(achievements)

\* setPendingAchievements(prev => prev.filter(a => a.id !== achievementId))
RemovePending(pending, id) ==
    IF BagIn(id, pending)
        THEN pending (-) (id :> CopiesIn(id, pending))
        ELSE pending

\* The debounce timer of checkForClickAchievements fires and the server
\* action inserts the missing rows; its result is on its way back.  The
\* same insert made for another instance sends no result to this one.
NotifyCheckClickAchievements ==
    \E count \in NotifyTotals, mine \in BOOLEAN :
        /\ newAchievements = {}
        /\ AchievementsToUnlock(user_achievements, count) # {}
        /\ user_achievements' = CheckClickAchievements(user_achievements, count)
        /\ rtDue' = TRUE
        /\ newAchievements' =
              IF mine THEN {AchievementsToUnlock(user_achievements, count)}
                      ELSE {}
        /\ UNCHANGED << pendingAchievements, notified, rtSnap, marking >>
        /\ UNCHANGED << qty, user_powers, prevQty >>
        /\ UNCHANGED << clientVars, grantVars, powerVars, laterVars >>

\* checkForClickAchievements receives newAchievements and appends them.
NotifyAppend ==
    \E achievements \in newAchievements :
        /\ pendingAchievements' = AddPending(pendingAchievements, achievements)
        /\ newAchievements' = {}
        /\ UNCHANGED << notified, rtDue, rtSnap, marking >>
        /\ UNCHANGED << ledgerVars, clientVars, grantVars, powerVars, laterVars >>

\* The realtime callback of user_achievements, or the fetch on mount, reads
\* the pending notifications; a failed read returns [].
FetchPendingRead ==
    \E ok \in BOOLEAN :
        /\ rtDue
        /\ Cardinality(rtSnap) < MaxSnaps
        /\ rtDue' = FALSE
        /\ rtSnap' = rtSnap \cup
              { IF ok THEN PendingRows(user_achievements, notified) ELSE {} }
        /\ UNCHANGED << pendingAchievements, notified, newAchievements,
                        marking >>
        /\ UNCHANGED << ledgerVars, clientVars, grantVars, powerVars, laterVars >>

\* setPendingAchievements(pendingAchievements) with what was read.
FetchPendingApply ==
    \E snap \in rtSnap :
        /\ pendingAchievements' = SetToBag(snap)
        /\ rtSnap' = rtSnap \ {snap}
        /\ UNCHANGED << notified, rtDue, newAchievements, marking >>
        /\ UNCHANGED << ledgerVars, clientVars, grantVars, powerVars, laterVars >>

\* markAchievementAsSeen for a displayed achievement: markAchievementNotified
\* updates the row, or fails.
MarkAchievementNotified ==
    \E id \in BagToSet(pendingAchievements), ok \in BOOLEAN :
        /\ \A m \in marking : m.id # id
        /\ marking' = marking \cup {[id |-> id, success |-> ok]}
        /\ notified' = IF ok THEN notified \cup {id} ELSE notified
        /\ rtDue' = (rtDue \/ ok)
        /\ UNCHANGED << pendingAchievements, rtSnap, newAchievements >>
        /\ UNCHANGED << ledgerVars, clientVars, grantVars, powerVars, laterVars >>

\* markAchievementAsSeen after the await: on success the id is filtered out.
MarkAchievementAsSeen ==
    \E m \in marking :
        /\ marking' = marking \ {m}
        /\ pendingAchievements' =
              IF m.success THEN RemovePending(pendingAchievements, m.id)
                           ELSE pendingAchievements
        /\ UNCHANGED << notified, rtDue, rtSnap, newAchievements >>
        /\ UNCHANGED << ledgerVars, clientVars, grantVars, powerVars, laterVars >>

InitNotify ==
    /\ ClientIdle
    /\ qty = 50
    /\ prevQty = 50
    /\ user_powers = [id \in PowerIds |-> 0]
    /\ user_achievements = [t \in ClickAchievements |-> 0]
    /\ rewardPower = [t \in ClickAchievements |-> NoPower]
    /\ GrantsIdle
    /\ pendingAchievements = EmptyBag
    /\ notified = {}
    /\ rtDue = TRUE
    /\ rtSnap = {}
    /\ newAchievements = {}
    /\ marking = {}
    /\ PowersIdle
    /\ LaterIdle
    /\ startTotal = qty

NextNotify ==
    \/ NotifyCheckClickAchievements
    \/ NotifyAppend
    \/ FetchPendingRead
    \/ FetchPendingApply
    \/ MarkAchievementNotified
    \/ MarkAchievementAsSeen

SpecNotify == InitNotify /\ [][NextNotify]_vars

(***************************************************************************)
(* Claims about the Click Aggregator.                                      *)
(***************************************************************************)
\* The step in which processClickQueue handles a successful answer.
SuccessStep ==
    pc \in {"resp1", "resp2"} /\ result.kind = "ok" /\ pc' = "idle"

\* The step in which a flush cycle ends without success.
FailureStep ==
    /\ pc \in {"resp1", "resp2", "refresh"}
    /\ pc' = "idle"
    /\ cycle'.outcome \in {"failed", "threw"}

\* A step that sends an update request.
RequestStep == updatesInFlight' > updatesInFlight

\* C1: at most one update request of the aggregator is in flight at any
\* time, and a request is in flight only while the queue is locked by
\* isProcessing.
C1_SingleFlight ==
    /\ updatesInFlight <= 1
    /\ (updatesInFlight = 1 => isProcessing)

\* C1 witness: a request is in flight while a backoff timer, which will call
\* processClickQueue, is outstanding and clicks are pending.
C1_Witness ==
    /\ updatesInFlight = 1
    /\ timers > 0
    /\ pendingClicks > 0

\* C2: the displayed clickCount equals serverConfirmedClicks plus
\* pendingClicks in every reachable state.
C2_DisplayedIsConfirmedPlusPending ==
    clickCount = serverConfirmedClicks + pendingClicks

\* C3: when a flush succeeds, serverConfirmedClicks becomes the total the
\* server returned, pendingClicks drops by exactly clicksToProcess, and what
\* remains pending is exactly what was enqueued while the request was in
\* flight.
C3_SuccessAccounting ==
    [][ SuccessStep =>
          /\ serverConfirmedClicks' = result.newCount
          /\ pendingClicks' = pendingClicks - clicksToProcess
          /\ pendingClicks' = cycle.duringFlight ]_vars

\* C3 witness: a flush has succeeded and the clicks enqueued during it are
\* still pending.
C3_Witness ==
    /\ pc = "idle"
    /\ cycle.outcome = "success"
    /\ cycle.duringFlight > 0
    /\ pendingClicks = cycle.duringFlight

\* C4: serverConfirmedClicks never decreases, and no update request carries
\* a total below the total stored in the Ledger.
C4_ConfirmedTotalMonotone ==
    [][ /\ serverConfirmedClicks' >= serverConfirmedClicks
        /\ (RequestStep => newTotal' >= qty') ]_vars

\* C5: a flush request carries the absolute total serverConfirmedClicks +
\* pendingClicks captured when the flush starts and a retry carries that same
\* total; an accepted write leaves the Ledger total equal to the submitted
\* total; and no user ever holds two rows of the same power or two grants of
\* the same achievement, although the trigger runs on every update.
C5_IdempotentFlush ==
    /\ [](\A id \in PowerIds : user_powers[id] <= 1)
    /\ [](\A t \in ClickAchievements : user_achievements[t] <= 1)
    /\ [][ /\ (RequestStep /\ cycle'.requests = 1 =>
                 newTotal' = serverConfirmedClicks' + pendingClicks')
           /\ (RequestStep /\ cycle'.requests > 1 =>
                 newTotal' = cycle.firstTotal)
           /\ (result'.kind = "ok" /\ result.kind # "ok" =>
                 qty' = newTotal) ]_vars

\* C5 witness: the same total was written twice inside the window of the
\* first milestone, so the trigger ran twice for a power already granted.
C5_Witness ==
    /\ prevQty = qty
    /\ qty >= PowerMilestone[1]
    /\ user_powers[1] = 1
    /\ cycle.outcome = "success"

\* C6: in one flush cycle an authentication failure leads to at most one
\* refresh and at most one further request, with the total of the failed
\* request; a failed retry is surfaced to the user and leaves pendingClicks
\* and serverConfirmedClicks unchanged.
C6_AuthRetryOnce ==
    /\ [](cycle.refreshes <= 1 /\ cycle.requests <= 2)
    /\ [](cycle.lastTotal = cycle.firstTotal)
    /\ [][ FailureStep /\ cycle.requests = 2 =>
             /\ cycle'.toast # "none"
             /\ pendingClicks' = pendingClicks
             /\ serverConfirmedClicks' = serverConfirmedClicks ]_vars

\* C7: a flush that fails for a reason other than authentication, by an
\* error result or by an exception, sends no second request in the cycle, is
\* surfaced to the user, and leaves pendingClicks and serverConfirmedClicks
\* unchanged.
C7_OtherFailureSurfaced ==
    [][ FailureStep /\ cycle.refreshes = 0 =>
          /\ cycle'.requests = 1
          /\ cycle'.toast # "none"
          /\ pendingClicks' = pendingClicks
          /\ serverConfirmedClicks' = serverConfirmedClicks ]_vars

\* C8 as stated: for a batch of pending clicks that keeps failing, with no
\* further enqueue, at most two update requests are sent.
C8_BoundedRequestsPerBatch == requestsForBatch <= 2

\* C8 as amended: one flush cycle sends at most two update requests, the
\* second only after the one refresh of the cycle.
C8_BoundedRequestsPerCycle ==
    /\ cycle.requests <= 2
    /\ cycle.refreshes <= 1
    /\ (cycle.requests = 2 => cycle.refreshes = 1)

\* C8 witness: a cycle has sent its retry and the retry failed as well.
C8_Witness ==
    /\ pc = "idle"
    /\ cycle.requests = 2
    /\ cycle.outcome = "failed"
    /\ pendingClicks > 0

\* An answer of the server that does not accept the update.
Unaccepted == result.kind \in {"auth", "error", "throw"}

\* C9: pending clicks are retried by later backoff cycles: if from some
\* point on the Ledger accepts every update, pending clicks always
\* eventually reach 0.
C9_PendingEventuallyFlushed ==
    (<>[](~Unaccepted)) => ((pendingClicks > 0) ~> (pendingClicks = 0))

\* C9 witness: a batch that failed before was sent again by a timer cycle
\* and confirmed, and the queue is empty.
C9_Witness ==
    /\ pc = "idle"
    /\ cycle.outcome = "success"
    /\ cycle.attempt >= 2
    /\ cycle.requests = 1
    /\ pendingClicks = 0

(***************************************************************************)
(* Claims about milestones.                                                *)
(***************************************************************************)
\* C10: after an update of the total from prevQty to qty every milestone
\* power with prevQty < threshold <= qty is held, and once the achievement
\* evaluation for that total has run every click achievement with
\* prevQty < threshold <= qty is granted.
C10_AllCrossedGranted ==
    /\ \A id \in PowerIds :
         (prevQty < PowerMilestone[id] /\ PowerMilestone[id] <= qty)
            => user_powers[id] >= 1
    /\ (achCheck = NoCheck =>
          \A t \in ClickAchievements :
            (prevQty < t /\ t <= qty) => user_achievements[t] >= 1)

(***************************************************************************)
(* Claims about the Milestone Evaluator and the Reward Grantor.            *)
(***************************************************************************)
\* The step in which checkClickAchievements runs for the total achCheck.
EvaluationStep == achCheck # NoCheck /\ achCheck' = NoCheck

\* The achievements that get a row in this step.
Unlocked ==
    { t \in ClickAchievements : user_achievements'[t] > user_achievements[t] }

Completed == {"nothing", "conflict", "granted", "powersFailed"}

C14_MissingPowerCreatedLater ==
    /\ \A e \in Evaluators :
          evalOutcome[e] = "powersFailed" =>
             /\ insertedAchievements[e] # {}
             /\ \A t \in insertedAchievements[e] : user_achievements[t] >= 1
    /\ \A e \in Evaluators :
          (evalPc[e] = "idle" /\ evalOutcome[e] \in {"nothing", "granted"})
          => \A l \in sawLost[e] :
                evalCount[e] >= l[2] => user_powers[l[1]] >= 1

\* C15: pendingAchievements never contains an achievement id twice, and an
\* id for which markAchievementNotified has succeeded never enters
\* pendingAchievements again.
C15_PresentedAtMostOnce ==
    /\ [](\A a \in ClickAchievements :
              CopiesIn(a, pendingAchievements) <= 1)
    /\ [][ \A a \in notified :
              ~BagIn(a, pendingAchievements) =>
                 ~BagIn(a, pendingAchievements') ]_vars

(***************************************************************************)
(* Claims about the Power Lifecycle Manager.                               *)
(***************************************************************************)
\* The user holds the row, its expires_at is in the past and its level is
\* below max_level.
ExpiredBelowMax ==
    /\ user_power.held
    /\ user_power.expires_at # Null
    /\ user_power.expires_at < now
    /\ user_power.level < special_power.max_level

\* C16: activate_user_power returns true, sets is_active and decrements a
\* non-null uses_left by one exactly when the user holds the power, it is
\* inactive, it is not expired below max_level and uses_left is null or
\* positive; otherwise it returns false and leaves the row unchanged.
C16_ActivateContract ==
    [][ ActivateUserPower =>
          IF /\ user_power.held
             /\ ~user_power.is_active
             /\ ~ExpiredBelowMax
             /\ (user_power.uses_left = Null \/ user_power.uses_left > 0)
            THEN /\ lastCall'.ret
                 /\ user_power'.is_active
                 /\ user_power'.uses_left =
                       IF user_power.uses_left = Null THEN Null
                       ELSE user_power.uses_left - 1
                 /\ user_power'.level = user_power.level
                 /\ user_power'.expires_at = user_power.expires_at
                 /\ user_power'.upgrade_confirmed =
                       user_power.upgrade_confirmed
            ELSE /\ ~lastCall'.ret
                 /\ user_power' = user_power ]_vars

\* C16 witness: activate_user_power returned true for a row past its
\* expires_at at max_level and used its last use.
C16_Witness ==
    /\ lastCall.op = "activate"
    /\ lastCall.ret
    /\ user_power.is_active
    /\ user_power.uses_left = 0
    /\ user_power.expires_at # Null
    /\ user_power.expires_at < now
    /\ user_power.level = special_power.max_level

\* C17: when POST /api/powers/activate is called for a held, inactive power
\* that is expired below max_level or has no uses left, the power is still
\* inactive when the endpoint returns.
C17_FailedActivationIsNoOp ==
    [][ ( /\ ActivatePowerRoute
          /\ user_power.held
          /\ ~user_power.is_active
          /\ (ExpiredBelowMax \/ user_power.uses_left = 0) )
        => ~user_power'.is_active ]_vars

\* C18: a successful upgrade of a power with a non-null duration to a level
\* below max_level sets expires_at to now + duration * new level, and an
\* upgrade to max_level sets expires_at to null.
C18_UpgradeExpiry ==
    [][ UpgradeUserPower /\ lastCall'.ret =>
          /\ user_power'.level = user_power.level + 1
          /\ (user_power'.level = special_power.max_level =>
                 user_power'.expires_at = Null)
          /\ ( /\ user_power'.level < special_power.max_level
               /\ special_power.duration # Null )
             => user_power'.expires_at =
                   now + special_power.duration * user_power'.level ]_vars

BothReturned == \A c \in Callers : callPc[c] = "done"

\* C21: two concurrent activate calls, or two concurrent upgrade calls, on
\* the same row behave like one valid transition: at most one returns true,
\* a non-null uses_left is decremented at most once and never drops below
\* 0, and level increases by at most 1 and never exceeds max_level.
C21_ConcurrentCallsLikeOne ==
    (startRow.held /\ BothReturned) =>
        /\ ~(callRet[1] /\ callRet[2])
        /\ (startRow.uses_left # Null =>
               /\ user_power.uses_left >= startRow.uses_left - 1
               /\ user_power.uses_left >= 0)
        /\ user_power.level <= startRow.level + 1
        /\ user_power.level <= special_power.max_level

\* C22: a power at level = max_level is treated as not expired even when
\* its expires_at lies in the past: activate_user_power does not refuse it
\* for expiry, and getActiveUserPowers returns it whenever it is active.
C22_MaxLevelNeverExpires ==
    /\ [][ ( /\ ActivateUserPower
             /\ user_power.held
             /\ user_power.level = special_power.max_level
             /\ ~user_power.is_active
             /\ (user_power.uses_left = Null \/ user_power.uses_left > 0) )
           => lastCall'.ret /\ user_power'.is_active ]_vars
    /\ [][ ( /\ GetActiveUserPowers
             /\ user_power.held
             /\ user_power.level = special_power.max_level
             /\ user_power.is_active )
           => lastCall'.ret ]_vars

\* C23: a row with level = max_level has expires_at = null: every step that
\* creates the row or raises its level leaves expires_at null when the
\* level it leaves is max_level, also for a power with max_level 1 and a
\* duration at the moment it is granted.
C23_MaxLevelIsPermanent ==
    [][ ( /\ (~user_power.held \/ user_power'.level # user_power.level)
          /\ user_power'.held
          /\ user_power'.level = special_power.max_level )
        => user_power'.expires_at = Null ]_vars

StaleInCache(pass, p) ==
    /\ pass.cacheBefore[p].held
    /\ pass.cacheBefore[p].is_active
    /\ ~GetActivePowers(pass.rowsBefore)[p].held

\* C25: when the cache holds an active power X that the store does not
\* report as active, the pass issues no write to the store for X and the
\* cache ends the pass without X.
C25_StaleCacheTrustsStore ==
    \A i \in 1..Len(passLog) : \A p \in ReconcilePowers :
        (passLog[i].ok /\ StaleInCache(passLog[i], p)) =>
            /\ p \notin passLog[i].wrote
            /\ passLog[i].rowsAfter[p] = passLog[i].rowsBefore[p]
            /\ ~passLog[i].cacheAfter[p].held

\* C26: no reconciliation path (the fallback of getActiveUserPowers, the
\* sync-powers endpoint, the auto-clicker repair of the client) sets
\* is_active to true on a row whose expires_at is in the past and whose
\* level is below max_level.
C26_NoRepairOfExpired ==
    [][ ( /\ (GetActiveUserPowers \/ SyncPowers
                \/ EnsureAutoClickerInDatabase \/ LoadActivePowers)
          /\ ExpiredBelowMax
          /\ ~user_power.is_active )
        => ~user_power'.is_active ]_vars

\* C39: upgrade_confirmed becomes true only through confirm_power_upgrade:
\* no reconciliation or sync operation (the sync-powers endpoint, the
\* auto-clicker repair of the client, getActiveUserPowers) leaves a row
\* confirmed that was not, so a power that requires confirmation is never
\* upgraded without an explicit confirmation.
C39_ConfirmedOnlyByConfirm ==
    [][ ( /\ ~(user_power.held /\ user_power.upgrade_confirmed)
          /\ user_power'.held
          /\ user_power'.upgrade_confirmed )
        => lastCall'.op = "confirm" ]_vars

\* The cache and the store agree on the ids, the active flags and the
\* levels of the active powers.
Agree(cache, rows) ==
    \A p \in ReconcilePowers :
        LET active == GetActivePowers(rows)[p]
        IN  /\ cache[p].held = active.held
            /\ active.held =>
                  /\ cache[p].is_active = active.is_active
                  /\ cache[p].level = active.level

MultipliersOf(value) ==
    { i \in 1..Len(powerList) :
        /\ powerList[i].effect_type = "multiplier"
        /\ powerList[i].effect_value = value }

\* C28: the click multiplier is the product of the multiplier values of all
\* active multiplier-type powers, 1 when there is none; powers of other
\* effect types do not change it.
C28_MultiplierIsProduct ==
    multiplier # 0 =>
        multiplier = (2 ^ Cardinality(MultipliersOf(2)))
                        * (3 ^ Cardinality(MultipliersOf(3)))

\* C28 witness: the multiplier of a list with a multiplier of 2, a
\* multiplier of 3 and no other multiplier has been computed as 6, and the
\* multiplier of a list of an auto-clicker alone as 1.
C28_Witness ==
    /\ multiplier # 0
    /\ Len(powerList) = 2
    /\ \/ /\ Cardinality(MultipliersOf(2)) = 1
          /\ Cardinality(MultipliersOf(3)) = 1
          /\ multiplier = 6
       \/ /\ powerList[1].effect_type = "auto_click"
          /\ powerList[2].effect_type = "multiplier"
          /\ powerList[2].effect_value = 3
          /\ multiplier = 3

\* C29: an active multiplier power of level L contributes effect_value x L
\* to the multiplier: the multiplier is the product of the values displayed
\* for the multiplier powers of the list.
C29_LevelScalesMultiplier ==
    multiplier # 0 =>
        multiplier =
            LET multiplierPowers == MultiplierPowers(powerList)
            IN  Reduce([i \in 1..Len(multiplierPowers) |->
                            DisplayedEffect(multiplierPowers[i])])

(***************************************************************************)
(* Claims about the backoff of the click queue.                            *)
(***************************************************************************)
\* C30: for consecutive backoff steps with no drain in between, each
\* scheduled delay d' is min(5000, 1.5 * d + d) of the previous scheduled
\* delay d, and the first is the seed.  (Delays are in half milliseconds.)
C30_DelayFromPreviousDelay ==
    /\ Len(nextBatchDelays) >= 1 => nextBatchDelays[1] = 2 * BackoffSeed
    /\ \A i \in 2..Len(nextBatchDelays) :
          2 * nextBatchDelays[i] =
              Min(4 * BackoffCap,
                  3 * nextBatchDelays[i - 1] + 2 * nextBatchDelays[i - 1])

(***************************************************************************)
(* Further claims about the Click Aggregator.                              *)
(***************************************************************************)
\* An enqueue that starts processClickQueue: handleClickUpdate with the
\* queue unlocked.
EnqueueStartsFlush == enqueued' > enqueued /\ ~isProcessing /\ isProcessing'

\* C31: when an enqueue starts a flush while a backoff timer is scheduled
\* and has not fired, the timer is cancelled, and so at most one backoff
\* timer is outstanding at any time.
C31_TimerCancelledOnRequest ==
    /\ [](timers <= 1)
    /\ [][ EnqueueStartsFlush /\ timers > 0 => timers' = 0 ]_vars

\* Two power lists contain the same powers with the same active flag and
\* the same level.
SameIdActiveLevel(powers1, powers2) ==
    \A p \in ReconcilePowers :
        /\ powers1[p].held = powers2[p].held
        /\ powers1[p].held =>
              /\ powers1[p].is_active = powers2[p].is_active
              /\ powers1[p].level = powers2[p].level

\* C32: arePowersEqual reports the cache and the answer of the store as
\* equal exactly when they contain the same powers with the same active
\* flag and the same level; no other field influences the result.
C32_EqualityOnIdActiveLevel ==
    \A i \in 1..Len(passLog) :
        LET powers1 == passLog[i].cacheBefore
            powers2 == GetActivePowers(passLog[i].rowsBefore)
        IN  ArePowersEqual(powers1, powers2)
                <=> SameIdActiveLevel(powers1, powers2)

\* C38: a failed read of the store leaves the cache unchanged: when the
\* get_active_powers call of a pass returns an error, the pass does not
\* replace a non-empty cache and does not report the views as in sync.
C38_FailedReadKeepsCache ==
    \A i \in 1..Len(passLog) :
        (~passLog[i].rpc /\ Length(passLog[i].cacheBefore) > 0) =>
            /\ passLog[i].cacheAfter = passLog[i].cacheBefore
            /\ ~passLog[i].ret

\* A step of processClickQueue that schedules the next run.
ScheduleStep == Len(nextBatchDelays') > Len(nextBatchDelays)

\* The delay scheduled by the step, and the argument
\* timeSinceLastProcess it was computed from: the timer is due at clock'.
ScheduledDelay == nextBatchDelays'[Len(nextBatchDelays')]

BackoffInput == clock' - (ScheduledDelay \div 2) - lastProcessedTimestamp'

\* C33: every delay calculateFibonacciBackoff returns for a non-negative
\* input is greater than 0 and at most 5000 ms, and the seed of 100 ms is
\* used exactly when the input is 0.  (Delays are in half milliseconds.)
C33_DelayWithinBounds ==
    [][ ScheduleStep =>
          /\ BackoffInput >= 0
          /\ ScheduledDelay > 0
          /\ ScheduledDelay <= 2 * BackoffCap
          /\ (BackoffInput = 0 => ScheduledDelay = 2 * BackoffSeed)
          /\ (BackoffInput # 0 =>
                ScheduledDelay = Min(3 * BackoffInput + 2 * BackoffInput,
                                     2 * BackoffCap)) ]_vars

\* C33 witness: the seed was scheduled for an input of 0 and, after a run
\* that failed, a delay between the seed and the cap for a positive input.
C33_Witness ==
    /\ Len(nextBatchDelays) = 2
    /\ nextBatchDelays[1] = 2 * BackoffSeed
    /\ nextBatchDelays[2] > 2 * BackoffSeed
    /\ nextBatchDelays[2] < 2 * BackoffCap
    /\ clock - (nextBatchDelays[2] \div 2) - lastProcessedTimestamp > 0

\* The queue is drained: nothing is pending and no flush is running.
Drained == pendingClicks = 0 /\ pc = "idle"

\* C34: no click is lost: with no other writer, once the queue is drained
\* the Ledger total is the total at the start plus the sum of the enqueued
\* amounts, also when a fetchScores result read before a flush completed is
\* applied after it.
C34_NoClickLost ==
    Drained => qty = startTotal + enqueued

\* C35: pendingClicks is never negative: every step changes it by the
\* amount enqueued minus the amount of a flush confirmed in that step, so
\* it is the sum of the enqueued amounts minus the sum of the confirmed
\* ones, and a flush cycle subtracts its captured amount at most once: in
\* the step that ends it with success.
C35_PendingAccounting ==
    /\ [](pendingClicks >= 0)
    /\ [][ /\ pendingClicks' - pendingClicks =
                (enqueued' - enqueued)
                    - (IF SuccessStep THEN clicksToProcess ELSE 0)
           /\ (SuccessStep => cycle.outcome = "running"
                                /\ cycle'.outcome = "success") ]_vars

\* C35 witness: a cycle has succeeded on its retry after the refresh, and
\* what is pending is what was enqueued during the cycle.
C35_Witness ==
    /\ pc = "idle"
    /\ cycle.outcome = "success"
    /\ cycle.requests = 2
    /\ pendingClicks > 0
    /\ pendingClicks = cycle.duringFlight
    /\ pendingClicks < enqueued

(***************************************************************************)
(* Claims about the single-flight guards and the achievement checks.       *)
(***************************************************************************)
\* The step in which a debounced achievement check ends.
CheckEnds == achievementCheck.at # "idle" /\ achievementCheck'.at = "idle"

\* C36: the single-flight guards are always released: isProcessing is false
\* after every flush, whether it succeeded, failed, retried or threw, and
\* achievementUpdateInProgress is false after every achievement check, so
\* neither guard is set while nothing is running.
C36_GuardsReleased ==
    /\ [](pc = "idle" => ~isProcessing)
    /\ [](achievementCheck.at = "idle" => ~achievementUpdateInProgress)
    /\ [][ /\ (SuccessStep \/ FailureStep => ~isProcessing')
           /\ (CheckEnds => ~achievementUpdateInProgress') ]_vars

\* C36 witness: a flush that was retried has thrown and ended, a click
\* check has run and ended, and both guards are free.
C36_Witness ==
    /\ pc = "idle"
    /\ cycle.outcome = "threw"
    /\ cycle.requests = 2
    /\ ~isProcessing
    /\ clickEvaluated > 0
    /\ achievementCheck.at = "idle"
    /\ achievementCheckDebounce = NoTimer
    /\ ~achievementUpdateInProgress

\* The liveness reading of C37 under LiveChecks: a requested total leads to
\* an evaluation for that total or a later one.
ClickCheckEventuallyRuns ==
    \A total \in CheckTotals :
        (clickRequested = total) ~> (clickEvaluated >= total)

\* C37: a requested click-achievement evaluation is executed for the
\* requested total or a later one: it is not cancelled for good by the rank
\* request fetchScores issues right after it on the same debounce timer,
\* nor lost because a check was in progress when it was requested.  Only
\* the scheduled callback executes an evaluation, so a request that was not
\* yet executed is held by the debounce timer.
C37_ClickCheckNotLost ==
    clickEvaluated < clickRequested =>
        /\ achievementCheckDebounce.kind = "click"
        /\ achievementCheckDebounce.arg >= clickRequested

====
